---- MODULE Spec2Model ----
(***************************************************************************)
(* Verification model of the SQL Time Study application.                   *)
(*                                                                         *)
(* Several specifications share the variables of this module:              *)
(*                                                                         *)
(*   Spec          the study session: the StudyProvider React state, the   *)
(*                 localStorage copy of the session and the Submit / Run   *)
(*                 handlers of the investigate page;                       *)
(*   SpecAnalysis  the analysis pipeline as pure functions of an attempt   *)
(*                 log: getSuccessfulAttempts, fitLearningCurve,           *)
(*                 analyzeSession and gradeSession;                        *)
(*   SpecTiming    the time statistics and the Time Performance scorer on  *)
(*                 successful attempts with millisecond times;             *)
(*   SpecCompare   compareResults on a reference result and the results    *)
(*                 submitted for it;                                       *)
(*   SpecComplexity analyzeSqlComplexity on a query text.                  *)
(*                                                                         *)
(* Numbers.  The code works on IEEE doubles; the model works on integers   *)
(* and exact rationals.  A value the code rounds with round2 is held in    *)
(* hundredths, a value it rounds with round4 in ten-thousandths, config    *)
(* thresholds are held in the unit of the value they are compared with.    *)
(* Math.round is round-half-up (MathRound).  Task ids "r.q" are held as    *)
(* the pair <<r, q>>, so taskId.split('.') + parseInt is a projection.     *)
(***************************************************************************)
EXTENDS Integers, Sequences, FiniteSets, TLC

VARIABLES
    \* ---- study session (src/src/context/StudyContext.tsx) ----
    session,       \* React state `session` of StudyProvider
    attemptCount,  \* React state `attemptCount` of StudyProvider
    storage,       \* localStorage[STORAGE_KEY]: Null or the stored JSON text
    feedback,      \* page state `feedback` of InvestigatePage
    \* ---- analysis pipeline (src/src/lib/analysis.ts, grading.ts) ----
    log,           \* session.attempts handed to the pipeline
    phase,         \* how far the pipeline has run on `log`
    successful,    \* result of getSuccessfulAttempts
    curve,         \* result of fitLearningCurve(successful)
    analysis,      \* result of analyzeSession
    config,        \* the Partial<RubricConfig> passed to gradeSession
    grading,       \* result of gradeSession
    \* ---- result comparison (resultComparison.ts) ----
    studentResult,   \* QueryResult of the submitted query
    expectedResult,  \* QueryResult of the reference query
    preserveOrder,   \* whether the row order must match
    comparison,      \* result of compareResults
    \* ---- SQL complexity (analysis.ts) ----
    sql,             \* the query text, as its sequence of tokens
    complexity,      \* result of analyzeSqlComplexity
    \* ---- least squares (analysis.ts) ----
    inputXs,         \* the x values handed to ols
    inputYs,         \* the y values handed to ols
    regression,      \* result of ols(xs, ys)
    \* ---- overlapping submissions (StudyContext.tsx) ----
    calls,           \* the submitAnswer calls suspended at their await
    \* ---- database singleton (src/src/lib/database.ts) ----
    db,              \* module variable `db`: null or a database
    initPromise,     \* module variable `initPromise`: null or a promise
    promises,        \* the promises created by initDatabase, by identity
    databases,       \* the SQL.Database objects constructed, by identity
    callers          \* what each caller of initDatabase was handed

sessionVars  == <<session, attemptCount, storage, feedback>>
analysisVars == <<log, phase, successful, curve, analysis, config, grading>>
compareVars  == <<studentResult, expectedResult, preserveOrder, comparison>>
complexityVars == <<sql, complexity>>
olsVars      == <<inputXs, inputYs, regression>>
databaseVars == <<db, initPromise, promises, databases, callers>>
vars         == <<session, attemptCount, storage, feedback,
                  log, phase, successful, curve, analysis, config, grading,
                  studentResult, expectedResult, preserveOrder, comparison,
                  sql, complexity, inputXs, inputYs, regression, calls,
                  db, initPromise, promises, databases, callers>>

\* JavaScript null / an absent value
Null == [null |-> TRUE]

-----------------------------------------------------------------------------
(* Bounds of the model                                                     *)

\* incorrect submissions allowed in one session log
MaxWrong == 2
\* length of the attempt logs handed to the analysis pipeline
MaxLen == 3
\* number of distinct tasks appearing in those logs
NumTasks == 3
\* incorrect submissions allowed in one pass through the study
MaxWrongInPass == 1

-----------------------------------------------------------------------------
(* Arithmetic helpers                                                      *)

Min(a, b) == IF a < b THEN a ELSE b
Max(a, b) == IF a > b THEN a ELSE b

\* Math.round(p / q): nearest integer, ties toward +infinity
MathRound(p, q) ==
    LET pp == IF q > 0 THEN p ELSE 0 - p
        qq == IF q > 0 THEN q ELSE 0 - q
    IN  (pp \div qq) + (IF 2 * (pp % qq) >= qq THEN 1 ELSE 0)

RECURSIVE SumSeq(_)
SumSeq(s) == IF s = <<>> THEN 0 ELSE Head(s) + SumSeq(Tail(s))

\* Array.prototype.map
MapSeq(s, F(_)) == [i \in 1..Len(s) |-> F(s[i])]

\* number of entries of s that satisfy P (filter(...).length)
CountSeq(s, P(_)) == Cardinality({i \in 1..Len(s) : P(s[i])})

-----------------------------------------------------------------------------
(* Task catalogue (src/src/data/tasks.ts)                                  *)

TASKS_PER_ROUND == <<3, 3, 4, 4, 4>>

RECURSIVE TasksFrom(_, _)
TasksFrom(r, q) ==
    IF r > Len(TASKS_PER_ROUND) THEN <<>>
    ELSE IF q > TASKS_PER_ROUND[r] THEN TasksFrom(r + 1, 1)
    ELSE <<[id |-> <<r, q>>, round |-> r, queryNum |-> q]>> \o TasksFrom(r, q + 1)

\* the 18 tasks 1.1, 1.2, 1.3, 2.1, ..., 5.4 in catalogue order
tasks == TasksFrom(1, 1)

getTasksForRound(roundId) == SelectSeq(tasks, LAMBDA t : t.round = roundId)

getTotalTaskCount == Len(tasks)

\* tasks.findIndex((t) => t.id === id) + 1; 0 when there is no such task
findIndexPlus1(id) ==
    IF \E i \in 1..Len(tasks) : tasks[i].id = id
    THEN CHOOSE i \in 1..Len(tasks) :
             tasks[i].id = id /\ \A j \in 1..(i - 1) : tasks[j].id # id
    ELSE 0

-----------------------------------------------------------------------------
(* Session store (dataLogger)                                              *)

StudentInfos == {[studentId |-> "s1", sqlExpertise |-> 0],
                 [studentId |-> "s2", sqlExpertise |-> 2]}

\* milliseconds between task start and submission, Date.now() - taskStartTime
Elapsed == {64000}

\* a timestamp returned by Date.now(); only "set or null" is observable
Now == 1
\* taskStartTime: null (the code tests it with !taskStartTime)
NoTime == 0
\* feedback: null
NoFeedback == "none"

createEmptySession ==
    [studentInfo |-> Null, currentRound |-> 1, currentQuery |-> 1,
     attempts |-> <<>>, taskStartTime |-> NoTime, isComplete |-> FALSE]

\* JSON.stringify(session): every field of a session is a finite number, a
\* string, a boolean, null, or an array/object of those, which JSON keeps.
\* variant: the attempts are not written
JSONstringifyWithoutAttempts(s) ==
    [text |-> [studentInfo   |-> s.studentInfo,
               currentRound  |-> s.currentRound,
               currentQuery  |-> s.currentQuery,
               attempts      |-> <<>>,
               taskStartTime |-> s.taskStartTime,
               isComplete    |-> s.isComplete]]

JSONstringify(s) ==
    [text |-> [studentInfo   |-> s.studentInfo,
               currentRound  |-> s.currentRound,
               currentQuery  |-> s.currentQuery,
               attempts      |-> s.attempts,
               taskStartTime |-> s.taskStartTime,
               isComplete    |-> s.isComplete]]

JSONparse(stored) == stored.text

\* variant: the stored session is ignored
getSessionAlwaysEmpty(store) == createEmptySession

getSession(store) ==
    IF store = Null THEN createEmptySession ELSE JSONparse(store)

startSession(studentInfo) ==
    [studentInfo |-> studentInfo, currentRound |-> 1, currentQuery |-> 1,
     attempts |-> <<>>, taskStartTime |-> Now, isComplete |-> FALSE]

logAttempt(s, taskId, querySequence, timeSec, attemptNum, isCorrect) ==
    IF s.studentInfo = Null THEN s
    ELSE [s EXCEPT !.attempts = Append(@,
            [studentId     |-> s.studentInfo.studentId,
             round         |-> taskId[1],
             queryNum      |-> taskId[2],
             taskId        |-> taskId,
             querySequence |-> querySequence,
             attemptNum    |-> attemptNum,
             timeSec       |-> timeSec,
             isCorrect     |-> isCorrect])]

\* variant: the task timer is restarted also on completion
advanceSessionKeepsTimer(s, nextRound, nextQuery, isComplete) ==
    [s EXCEPT !.currentRound  = nextRound,
              !.currentQuery  = nextQuery,
              !.taskStartTime = Now,
              !.isComplete    = isComplete]

advanceSession(s, nextRound, nextQuery, isComplete) ==
    [s EXCEPT !.currentRound  = nextRound,
              !.currentQuery  = nextQuery,
              !.taskStartTime = IF isComplete THEN NoTime ELSE Now,
              !.isComplete    = isComplete]

-----------------------------------------------------------------------------
(* Database singleton (src/src/lib/database.ts)                            *)
(*                                                                         *)
(* Objects are held by identity: a promise is its index in `promises`, a   *)
(* database its index in `databases`.  A database records how many times   *)
(* the schema script and the seed script ran on it to completion.          *)

\* concurrent callers of initDatabase
NumCallers == 3
\* initialization attempts (promises created) in one run
MaxInits == 3

Callers == 1..NumCallers

\* db: null
NoDatabase == 0
\* initPromise: null
NoPromise == 0

\* what a call of initDatabase returned to its caller
NotCalled == [kind |-> "none", id |-> 0]
HandedDatabase(d) == [kind |-> "db", id |-> d]
HandedPromise(p) == [kind |-> "promise", id |-> p]

Pending == [state |-> "pending", value |-> NoDatabase]
Rejected == [state |-> "rejected", value |-> NoDatabase]
Fulfilled(d) == [state |-> "fulfilled", value |-> d]

\* variant: a pending initialization is not reused
initDatabaseWithoutPendingCheck(d, ip, ps) ==
    IF d # NoDatabase
    THEN [handed |-> HandedDatabase(d), initPromise |-> ip, promises |-> ps]
    ELSE [handed      |-> HandedPromise(Len(ps) + 1),
          initPromise |-> Len(ps) + 1,
          promises    |-> Append(ps, Pending)]

\* initDatabase up to its return: the existing database, the pending promise,
\* or a new promise whose body has run up to `await initSqlJs(...)`
initDatabase(d, ip, ps) ==
    IF d # NoDatabase
    THEN [handed |-> HandedDatabase(d), initPromise |-> ip, promises |-> ps]
    ELSE IF ip # NoPromise
    THEN [handed |-> HandedPromise(ip), initPromise |-> ip, promises |-> ps]
    ELSE [handed      |-> HandedPromise(Len(ps) + 1),
          initPromise |-> Len(ps) + 1,
          promises    |-> Append(ps, Pending)]

\* how the body of the initialization ends
InitOutcomes == {"ok", "loadFails", "schemaFails", "seedFails"}

CallInitDatabase(c) ==
    /\ Len(initDatabase(db, initPromise, promises).promises) <= MaxInits
    /\ LET r == initDatabase(db, initPromise, promises)
       IN  /\ callers' = [callers EXCEPT ![c] = r.handed]
           /\ initPromise' = r.initPromise
           /\ promises' = r.promises
    /\ UNCHANGED <<db, databases>>
    /\ UNCHANGED sessionVars
    /\ UNCHANGED analysisVars
    /\ UNCHANGED compareVars
    /\ UNCHANGED complexityVars
    /\ UNCHANGED <<olsVars, calls>>

\* the body of the initialization from `await initSqlJs(...)` to its end: it
\* has no further await, so it runs without another call in between
InitializationEnds(p, outcome) ==
    /\ p \in 1..Len(promises)
    /\ promises[p].state = "pending"
    /\ IF outcome = "loadFails"
       THEN \* initSqlJs rejects: nothing was constructed
            /\ UNCHANGED <<db, databases>>
       ELSE \* db = new SQL.Database(); db.run(SCHEMA_SQL); db.run(seedSQL)
            /\ databases' = Append(databases,
                   [schemaRuns |-> IF outcome = "schemaFails" THEN 0 ELSE 1,
                    seedRuns   |-> IF outcome = "ok" THEN 1 ELSE 0])
            /\ db' = Len(databases) + 1
    /\ IF outcome = "ok"
       THEN /\ promises' = [promises EXCEPT ![p] = Fulfilled(Len(databases) + 1)]
            /\ UNCHANGED initPromise
       ELSE \* catch: initPromise = null; throw error
            /\ promises' = [promises EXCEPT ![p] = Rejected]
            /\ initPromise' = NoPromise
    /\ UNCHANGED callers
    /\ UNCHANGED sessionVars
    /\ UNCHANGED analysisVars
    /\ UNCHANGED compareVars
    /\ UNCHANGED complexityVars
    /\ UNCHANGED <<olsVars, calls>>

-----------------------------------------------------------------------------
(* StudyProvider and the investigate page                                  *)

\* tasksInRound[session.currentQuery - 1] || null
currentTaskOf(s) ==
    LET tasksInRound == getTasksForRound(s.currentRound)
    IN  IF s.currentQuery \in 1..Len(tasksInRound)
        THEN tasksInRound[s.currentQuery] ELSE Null

querySequenceOf(s) ==
    IF currentTaskOf(s) = Null THEN 0 ELSE findIndexPlus1(currentTaskOf(s).id)

\* what a submitted query does when executed and compared
Outcomes == {"correct", "wrong", "error"}

\* the session submitAnswer computes, stores and passes to setSession
\* variant: the study is declared complete one task early
submitAnswerSessionCompletesEarly(s, count, timeSec, isMatch) ==
    LET currentTask   == currentTaskOf(s)
        querySequence == querySequenceOf(s)
        logged        == logAttempt(s, currentTask.id, querySequence, timeSec,
                                    count + 1, isMatch)
        nextQueryInRound == s.currentQuery + 1
        tasksInCurrentRound == getTasksForRound(s.currentRound)
    IN  IF ~isMatch THEN logged
        ELSE IF querySequence + 1 >= getTotalTaskCount
             THEN advanceSession(logged, s.currentRound, s.currentQuery, TRUE)
        ELSE IF nextQueryInRound <= Len(tasksInCurrentRound)
             THEN advanceSession(logged, s.currentRound, nextQueryInRound, FALSE)
        ELSE advanceSession(logged, s.currentRound + 1, 1, FALSE)

submitAnswerSession(s, count, timeSec, isMatch) ==
    LET currentTask   == currentTaskOf(s)
        querySequence == querySequenceOf(s)
        logged        == logAttempt(s, currentTask.id, querySequence, timeSec,
                                    count + 1, isMatch)
        nextQueryInRound == s.currentQuery + 1
        tasksInCurrentRound == getTasksForRound(s.currentRound)
    IN  IF ~isMatch THEN logged
        ELSE IF querySequence >= getTotalTaskCount
             THEN advanceSession(logged, s.currentRound, s.currentQuery, TRUE)
        ELSE IF nextQueryInRound <= Len(tasksInCurrentRound)
             THEN advanceSession(logged, s.currentRound, nextQueryInRound, FALSE)
        ELSE advanceSession(logged, s.currentRound + 1, 1, FALSE)

\* the page renders the editor only for a started session with a task
PageShowsEditor ==
    session.studentInfo # Null /\ currentTaskOf(session) # Null

WrongCount == CountSeq(session.attempts, LAMBDA a : ~a.isCorrect)

StartStudy(info) ==
    /\ session' = startSession(info)
    /\ storage' = JSONstringify(startSession(info))
    /\ attemptCount' = 0
    /\ feedback' = NoFeedback
    /\ UNCHANGED analysisVars
    /\ UNCHANGED compareVars
    /\ UNCHANGED complexityVars
    /\ UNCHANGED <<olsVars, calls, databaseVars>>

\* handleSubmit followed by submitAnswer.  Once the database is ready every
\* await of the handler resolves in a microtask, so the handler runs to its
\* end before the next user event.
HandleSubmit(outcome, timeSec) ==
    /\ PageShowsEditor
    /\ outcome = "wrong" => WrongCount < MaxWrong
    /\ IF outcome = "error"
       THEN \* runQuery returned an error: handleSubmit returns before submitAnswer
            /\ feedback' = "error"
            /\ UNCHANGED <<session, attemptCount, storage>>
       ELSE IF session.taskStartTime = NoTime
       THEN \* submitAnswer: 'Session not initialized'
            /\ feedback' = "error"
            /\ UNCHANGED <<session, attemptCount, storage>>
       ELSE LET updated == submitAnswerSession(session, attemptCount, timeSec,
                                               outcome = "correct")
                moved   == \/ updated.currentRound # session.currentRound
                           \/ updated.currentQuery # session.currentQuery
            IN  /\ session' = updated
                /\ storage' = JSONstringify(updated)
                \* the effect on [currentRound, currentQuery] resets the counter
                /\ attemptCount' = IF moved THEN 0 ELSE attemptCount + 1
                \* on a move the page's reset effect (setFeedback(null)) and
                \* the handler's setFeedback race; either may be applied last
                /\ feedback' \in
                       IF outcome # "correct" THEN {"error"}
                       ELSE IF moved THEN {NoFeedback, "success"}
                       ELSE {"success"}
    /\ UNCHANGED analysisVars
    /\ UNCHANGED compareVars
    /\ UNCHANGED complexityVars
    /\ UNCHANGED <<olsVars, calls, databaseVars>>

\* handleRun: runs the query and shows its result, clears the feedback
HandleRun ==
    /\ PageShowsEditor
    /\ feedback' = NoFeedback
    /\ UNCHANGED <<session, attemptCount, storage>>
    /\ UNCHANGED analysisVars
    /\ UNCHANGED compareVars
    /\ UNCHANGED complexityVars
    /\ UNCHANGED <<olsVars, calls, databaseVars>>

\* a page reload: the provider is mounted again and loads the stored session
Reload ==
    /\ session' = getSession(storage)
    /\ attemptCount' = 0
    /\ feedback' = NoFeedback
    /\ UNCHANGED storage
    /\ UNCHANGED analysisVars
    /\ UNCHANGED compareVars
    /\ UNCHANGED complexityVars
    /\ UNCHANGED <<olsVars, calls, databaseVars>>

ResetStudy ==
    /\ storage' = Null
    /\ session' = createEmptySession
    /\ attemptCount' = 0
    /\ feedback' = NoFeedback
    /\ UNCHANGED analysisVars
    /\ UNCHANGED compareVars
    /\ UNCHANGED complexityVars
    /\ UNCHANGED <<olsVars, calls, databaseVars>>

-----------------------------------------------------------------------------
(* Specification of submitAnswer as the provider exposes it: an async      *)
(* function that reads `session` and `attemptCount` of the render it was   *)
(* created in, suspends at `await checkQueryResult(...)`, and afterwards   *)
(* logs, advances and saves from the values it read before the await.      *)
(* Nothing in the provider keeps a second call from starting while a first *)
(* one is suspended.                                                       *)

\* submitAnswer calls that may be suspended at the same time
MaxOverlap == 2
\* attempts, logged or in flight, of one session
MaxSubmissions == 2

\* submitAnswer up to its await: the guard, setAttemptCount, timeSec
SubmitAnswerBegin(isMatch, timeSec) ==
    /\ currentTaskOf(session) # Null
    /\ session.studentInfo # Null
    /\ session.taskStartTime # NoTime
    /\ Cardinality(calls) < MaxOverlap
    /\ Len(session.attempts) + Cardinality(calls) < MaxSubmissions
    /\ attemptCount' = attemptCount + 1
    /\ calls' = calls \cup {[session |-> session, count |-> attemptCount,
                             timeSec |-> timeSec, isMatch |-> isMatch]}
    /\ UNCHANGED <<session, storage, feedback>>
    /\ UNCHANGED analysisVars
    /\ UNCHANGED compareVars
    /\ UNCHANGED complexityVars
    /\ UNCHANGED <<olsVars, databaseVars>>

\* submitAnswer from its await on: logAttempt and advanceSession applied to
\* the session read before the await, then setSession and saveSession
SubmitAnswerEnd(c) ==
    /\ c \in calls
    /\ LET updated == submitAnswerSession(c.session, c.count, c.timeSec, c.isMatch)
           moved   == \/ updated.currentRound # session.currentRound
                      \/ updated.currentQuery # session.currentQuery
       IN  /\ session' = updated
           /\ storage' = JSONstringify(updated)
           /\ attemptCount' = IF moved THEN 0 ELSE attemptCount
    /\ calls' = calls \ {c}
    /\ UNCHANGED feedback
    /\ UNCHANGED analysisVars
    /\ UNCHANGED compareVars
    /\ UNCHANGED complexityVars
    /\ UNCHANGED <<olsVars, databaseVars>>

-----------------------------------------------------------------------------
(* Analysis: successful attempts (src/src/lib/analysis.ts)                 *)

\* Map.prototype.set on a Map held as the sequence of its values in insertion
\* order (the key of a value is its taskId): an existing key keeps its place
\* and takes the new value, a new key goes to the end.
\* variant: a key already present keeps its first value
MapSetKeepFirst(best, a) ==
    IF \E i \in 1..Len(best) : best[i].taskId = a.taskId
    THEN best
    ELSE Append(best, a)

MapSet(best, a) ==
    IF \E i \in 1..Len(best) : best[i].taskId = a.taskId
    THEN [i \in 1..Len(best) |-> IF best[i].taskId = a.taskId THEN a ELSE best[i]]
    ELSE Append(best, a)

RECURSIVE BestOf(_, _)
BestOf(attempts, best) ==
    IF attempts = <<>> THEN best
    ELSE BestOf(Tail(attempts),
                IF Head(attempts).isCorrect THEN MapSet(best, Head(attempts))
                                            ELSE best)

\* one step of a stable sort by querySequence: a goes after every entry that
\* does not compare greater
InsertBySequence(sorted, a) ==
    LET k == Cardinality({i \in 1..Len(sorted) :
                             sorted[i].querySequence <= a.querySequence})
    IN  SubSeq(sorted, 1, k) \o <<a>> \o SubSeq(sorted, k + 1, Len(sorted))

RECURSIVE SortBySequence(_, _)
SortBySequence(rest, sorted) ==
    IF rest = <<>> THEN sorted
    ELSE SortBySequence(Tail(rest), InsertBySequence(sorted, Head(rest)))

getSuccessfulAttempts(s) == SortBySequence(BestOf(s.attempts, <<>>), <<>>)

\* variant: the sort is applied to session.attempts itself
attemptsAfterAnalysisSortedInPlace(attempts) == SortBySequence(attempts, <<>>)

\* session.attempts after a call of getSuccessfulAttempts or analyzeSession:
\* the sorts of the analysis act on copies (Array.from(best.values()),
\* [...times]) and filter / map build new arrays, so the log is only read
attemptsAfterAnalysis(attempts) == attempts

-----------------------------------------------------------------------------
(* Analysis: learning curve                                                *)
(*                                                                         *)
(* The code regresses ln(timeSec) on ln(querySequence).  The slope and R^2 *)
(* of that fit do not depend on the base of the logarithm, so the model    *)
(* takes logarithms to base 2 and draws sequence numbers and times from    *)
(* the powers of two, where they are integers; the fit is then computed    *)
(* in exact rationals.  intercept, residuals and predictedTimes are held   *)
(* in log2 units (predictedTimes as the exponent yHat, exp not applied);   *)
(* learningRate and predictedFirstTaskTime, which are exp of fields held   *)
(* here, are left out.                                                     *)

Frac(n, d) == [num |-> n, den |-> d]

\* timeSec of an attempt is held in milliseconds, as (Date.now() - start) counts
\* it before the division by 1000; the times that reach the fit are whole seconds
Seconds(ms) == ms \div 1000

\* Math.log to base 2 of a power of two
Log2(n) == CHOOSE k \in 0..20 : 2^k = n

\* round4 / round2 of the rational p / q
round4(p, q) == MathRound(p * 10000, q)
round2(p, q) == MathRound(p * 100, q)

\* ols(xs, ys) on integers; the comparisons with 1e-12 are comparisons with 0
\* variant: a constant y is reported as a perfect fit
olsPerfectOnConstant(xs, ys) ==
    LET n      == Len(xs)
        sumX   == SumSeq(xs)
        sumY   == SumSeq(ys)
        sumXY  == SumSeq([i \in 1..n |-> xs[i] * ys[i]])
        sumX2  == SumSeq([i \in 1..n |-> xs[i] * xs[i]])
        denom  == n * sumX2 - sumX * sumX
        sn     == n * sumXY - sumX * sumY
        icn    == denom * sumY - sn * sumX
        E(i)   == n * denom * ys[i] - (icn + n * sn * xs[i])
        T(i)   == n * ys[i] - sumY
        ssResN == SumSeq([i \in 1..n |-> E(i) * E(i)])
        ssTotN == SumSeq([i \in 1..n |-> T(i) * T(i)])
    IN  IF denom = 0
        THEN [slope |-> Frac(0, 1), intercept |-> Frac(sumY, n),
              rSquared |-> Frac(IF ssTotN = 0 THEN 1 ELSE 0, 1)]
        ELSE [slope     |-> Frac(sn, denom),
              intercept |-> Frac(icn, n * denom),
              rSquared  |-> IF ssTotN = 0 THEN Frac(1, 1)
                            ELSE Frac(denom * denom * ssTotN - ssResN,
                                      denom * denom * ssTotN)]

ols(xs, ys) ==
    LET n      == Len(xs)
        sumX   == SumSeq(xs)
        sumY   == SumSeq(ys)
        sumXY  == SumSeq([i \in 1..n |-> xs[i] * ys[i]])
        sumX2  == SumSeq([i \in 1..n |-> xs[i] * xs[i]])
        denom  == n * sumX2 - sumX * sumX
        sn     == n * sumXY - sumX * sumY          \* slope = sn / denom
        icn    == denom * sumY - sn * sumX         \* intercept = icn / (n * denom)
        \* n * denom * (ys[i] - yHat_i)
        E(i)   == n * denom * ys[i] - (icn + n * sn * xs[i])
        \* n * (ys[i] - yMean)
        T(i)   == n * ys[i] - sumY
        ssResN == SumSeq([i \in 1..n |-> E(i) * E(i)])   \* ssRes * (n * denom)^2
        ssTotN == SumSeq([i \in 1..n |-> T(i) * T(i)])   \* ssTot * n^2
    IN  IF denom = 0
        THEN [slope |-> Frac(0, 1), intercept |-> Frac(sumY, n), rSquared |-> Frac(0, 1)]
        ELSE [slope     |-> Frac(sn, denom),
              intercept |-> Frac(icn, n * denom),
              rSquared  |-> IF ssTotN = 0 THEN Frac(0, 1)
                            ELSE Frac(denom * denom * ssTotN - ssResN,
                                      denom * denom * ssTotN)]

fitLearningCurve(succ) ==
    LET n == Len(succ)
    IN  IF n < 2
        THEN [exponent |-> 0, intercept |-> 0, rSquared |-> 0, n |-> n,
              residuals |-> <<>>, predictedTimes |-> <<>>]
        ELSE LET xs  == [i \in 1..n |-> Log2(succ[i].querySequence)]
                 ys  == [i \in 1..n |-> Log2(Seconds(succ[i].timeSec))]
                 fit == ols(xs, ys)
                 \* yHat_i = intercept + slope * xs[i], as a rational over yd
                 yd  == fit.intercept.den * fit.slope.den
                 yn(i) == fit.intercept.num * fit.slope.den
                            + fit.slope.num * xs[i] * fit.intercept.den
             IN  [exponent  |-> round4(fit.slope.num, fit.slope.den),
                  intercept |-> round4(fit.intercept.num, fit.intercept.den),
                  rSquared  |-> round4(fit.rSquared.num, fit.rSquared.den),
                  n         |-> n,
                  residuals      |-> [i \in 1..n |-> round4(ys[i] * yd - yn(i), yd)],
                  predictedTimes |-> [i \in 1..n |-> round4(yn(i), yd)]]

-----------------------------------------------------------------------------
(* Analysis: per-task and overall statistics                               *)

TaskIdsOf(attempts) == {attempts[i].taskId : i \in 1..Len(attempts)}

\* attemptCounts.get(taskId)
AttemptCount(allAttempts, taskId) ==
    CountSeq(allAttempts, LAMBDA a : a.taskId = taskId)

\* firstAttemptCorrect.get(taskId): isCorrect of the first attempt of the task
FirstAttemptCorrect(allAttempts, taskId) ==
    LET first == CHOOSE i \in 1..Len(allAttempts) :
                     /\ allAttempts[i].taskId = taskId
                     /\ \A j \in 1..(i - 1) : allAttempts[j].taskId # taskId
    IN  allAttempts[first].isCorrect

\* sqlComplexity and difficultyScore are not held: they depend on the text of
\* the submitted query only.  The returned timeSec is held in hundredths of a
\* second.
computeTaskDifficulties(succ, allAttempts) ==
    [i \in 1..Len(succ) |->
        [taskId          |-> succ[i].taskId,
         round           |-> succ[i].round,
         queryNum        |-> succ[i].queryNum,
         querySequence   |-> succ[i].querySequence,
         timeSec         |-> round2(succ[i].timeSec, 1000),
         attempts        |-> IF AttemptCount(allAttempts, succ[i].taskId) = 0 THEN 1
                             ELSE AttemptCount(allAttempts, succ[i].taskId),
         firstTrySuccess |-> IF succ[i].taskId \in TaskIdsOf(allAttempts)
                             THEN FirstAttemptCorrect(allAttempts, succ[i].taskId)
                             ELSE FALSE]]

\* [...times].sort((a, b) => a - b)
RECURSIVE SortNumbers(_)
SortNumbers(s) ==
    IF s = <<>> THEN <<>>
    ELSE LET m == CHOOSE i \in 1..Len(s) : \A j \in 1..Len(s) : s[i] <= s[j]
         IN  <<s[m]>> \o SortNumbers(SubSeq(s, 1, m - 1) \o SubSeq(s, m + 1, Len(s)))

\* median(sorted) as a rational
median(sorted) ==
    LET mid == Len(sorted) \div 2
    IN  IF Len(sorted) = 0 THEN Frac(0, 1)
        ELSE IF Len(sorted) % 2 = 0 THEN Frac(sorted[mid] + sorted[mid + 1], 2)
        ELSE Frac(sorted[mid + 1], 1)

\* variant: totalAttempts counts the successful attempts only
computeOverallStatsSuccessfulOnly(succ, allAttempts) ==
    LET times       == [i \in 1..Len(succ) |-> succ[i].timeSec]
        sortedTimes == SortNumbers(times)
        totalTime   == SumSeq(times)
        n           == Len(succ)
        taskIds     == TaskIdsOf(allAttempts)
        firstTrySuccesses ==
            Cardinality({t \in taskIds : FirstAttemptCorrect(allAttempts, t)})
        first3 == SumSeq(SubSeq(times, 1, 3))
        last3  == SumSeq(SubSeq(times, n - 2, n))
    IN  [totalTimeSec   |-> round2(totalTime, 1000),
         totalTasks     |-> 18,
         completedTasks |-> n,
         totalAttempts  |-> Len(succ),
         avgTimeSec     |-> IF n > 0 THEN round2(totalTime, n * 1000) ELSE 0,
         medianTimeSec  |-> round2(median(sortedTimes).num,
                                   median(sortedTimes).den * 1000),
         avgAttempts    |-> IF n > 0 THEN round2(Len(allAttempts), n) ELSE 0,
         firstTrySuccessRate |->
             IF Cardinality(taskIds) > 0
             THEN round2(firstTrySuccesses, Cardinality(taskIds)) ELSE 0,
         improvementRatio |->
             IF n >= 6 /\ first3 > 0 THEN round4(last3, first3) ELSE 10000]

\* timeStdDev (a square root) is not held; no modelled consumer reads it.
\* Returned times are in hundredths of a second, rates in hundredths, improvementRatio
\* in ten-thousandths.
computeOverallStats(succ, allAttempts) ==
    LET times       == [i \in 1..Len(succ) |-> succ[i].timeSec]
        sortedTimes == SortNumbers(times)
        totalTime   == SumSeq(times)
        n           == Len(succ)
        taskIds     == TaskIdsOf(allAttempts)
        firstTrySuccesses ==
            Cardinality({t \in taskIds : FirstAttemptCorrect(allAttempts, t)})
        first3 == SumSeq(SubSeq(times, 1, 3))
        last3  == SumSeq(SubSeq(times, n - 2, n))
    IN  [totalTimeSec   |-> round2(totalTime, 1000),
         totalTasks     |-> 18,
         completedTasks |-> n,
         totalAttempts  |-> Len(allAttempts),
         avgTimeSec     |-> IF n > 0 THEN round2(totalTime, n * 1000) ELSE 0,
         medianTimeSec  |-> round2(median(sortedTimes).num,
                                   median(sortedTimes).den * 1000),
         avgAttempts    |-> IF n > 0 THEN round2(Len(allAttempts), n) ELSE 0,
         firstTrySuccessRate |->
             IF Cardinality(taskIds) > 0
             THEN round2(firstTrySuccesses, Cardinality(taskIds)) ELSE 0,
         improvementRatio |->
             IF n >= 6 /\ first3 > 0 THEN round4(last3, first3) ELSE 10000]

\* variant: a curve is fitted from two successful attempts on
analyzeSessionTwoPoints(s) ==
    LET succ        == getSuccessfulAttempts(s)
        allAttempts == s.attempts
    IN  [learningCurve    |-> IF Len(succ) >= 2 THEN fitLearningCurve(succ) ELSE Null,
         taskDifficulties |-> computeTaskDifficulties(succ, allAttempts),
         overallStats     |-> computeOverallStats(succ, allAttempts)]

\* roundSummaries are not held; no modelled consumer reads them.
analyzeSession(s) ==
    LET succ        == getSuccessfulAttempts(s)
        allAttempts == s.attempts
    IN  [learningCurve    |-> IF Len(succ) >= 3 THEN fitLearningCurve(succ) ELSE Null,
         taskDifficulties |-> computeTaskDifficulties(succ, allAttempts),
         overallStats     |-> computeOverallStats(succ, allAttempts)]

-----------------------------------------------------------------------------
(* Grading (grading.ts)                                                    *)
(*                                                                         *)
(* Units: weights and weightedScore in hundredths, targetExponent and      *)
(* minRSquared in ten-thousandths, min/maxSecondsPerTask in seconds.       *)
(* rationale, description, flag messages and summary are strings built     *)
(* from the fields held here and are left out.                             *)

DEFAULT_CONFIG ==
    [totalTasks |-> 18, minSecondsPerTask |-> 3, maxSecondsPerTask |-> 600,
     targetExponent |-> -3000, minRSquared |-> 1500]

\* { ...DEFAULT_CONFIG, ...config }
MergeConfig(cfgOverride) ==
    [k \in DOMAIN DEFAULT_CONFIG |->
        IF k \in DOMAIN cfgOverride THEN cfgOverride[k] ELSE DEFAULT_CONFIG[k]]

Flag(severity, code) == [severity |-> severity, code |-> code]

Criterion(name, weight, rawScore, weightedScore) ==
    [name |-> name, weight |-> weight, rawScore |-> rawScore,
     weightedScore |-> weightedScore]

\* a scorer returns its criterion and the flags it pushes, in push order
Scored(criterion, flags) == [criterion |-> criterion, flags |-> flags]

\* variant: exactly half complete is already critical
scoreCompletionHalfCritical(a, cfg) ==
    LET weight    == 20
        completed == a.overallStats.completedTasks
        total     == cfg.totalTasks
        rawScore  == MathRound(completed * 100, total)
    IN  Scored(Criterion("Completion", weight, rawScore, round2(rawScore * weight, 100)),
               IF completed < total
               THEN <<Flag(IF 2 * completed <= total THEN "critical" ELSE "warning",
                           "INCOMPLETE")>>
               ELSE <<>>)

scoreCompletion(a, cfg) ==
    LET weight    == 20
        completed == a.overallStats.completedTasks
        total     == cfg.totalTasks
        rawScore  == MathRound(completed * 100, total)
    IN  Scored(Criterion("Completion", weight, rawScore, round2(rawScore * weight, 100)),
               IF completed < total
               THEN <<Flag(IF 2 * completed < total THEN "critical" ELSE "warning",
                           "INCOMPLETE")>>
               ELSE <<>>)

\* variant: a missing curve scores 0 without a flag
scoreLearningCurveSilent(a, cfg) ==
    LET weight == 25
        lc     == a.learningCurve
    IN  IF lc = Null \/ lc.n < 3
        THEN Scored(Criterion("Learning Curve", weight, 0, 0),
                    <<>>)
        ELSE
        LET exponentScore ==
                IF lc.exponent >= 0 THEN 0
                ELSE IF lc.exponent <= cfg.targetExponent THEN 100
                ELSE MathRound(lc.exponent * 100, cfg.targetExponent)
            exponentFlags ==
                IF lc.exponent >= 0 THEN <<Flag("warning", "POSITIVE_EXPONENT")>>
                ELSE <<>>
            rSquaredScore ==
                IF lc.rSquared < cfg.minRSquared THEN 0
                ELSE IF lc.rSquared >= 7000 THEN 100
                ELSE MathRound((lc.rSquared - cfg.minRSquared) * 100,
                               7000 - cfg.minRSquared)
            rSquaredFlags ==
                IF lc.rSquared < cfg.minRSquared /\ lc.exponent < 0
                THEN <<Flag("info", "WEAK_FIT")>> ELSE <<>>
            rawScore == MathRound(exponentScore * 6 + rSquaredScore * 4, 10)
        IN  Scored(Criterion("Learning Curve", weight, rawScore,
                             round2(rawScore * weight, 100)),
                   exponentFlags \o rSquaredFlags)

scoreLearningCurve(a, cfg) ==
    LET weight == 25
        lc     == a.learningCurve
    IN  IF lc = Null \/ lc.n < 3
        THEN Scored(Criterion("Learning Curve", weight, 0, 0),
                    <<Flag("warning", "INSUFFICIENT_DATA_FOR_LC")>>)
        ELSE
        LET exponentScore ==
                IF lc.exponent >= 0 THEN 0
                ELSE IF lc.exponent <= cfg.targetExponent THEN 100
                ELSE MathRound(lc.exponent * 100, cfg.targetExponent)
            exponentFlags ==
                IF lc.exponent >= 0 THEN <<Flag("warning", "POSITIVE_EXPONENT")>>
                ELSE <<>>
            rSquaredScore ==
                IF lc.rSquared < cfg.minRSquared THEN 0
                ELSE IF lc.rSquared >= 7000 THEN 100
                ELSE MathRound((lc.rSquared - cfg.minRSquared) * 100,
                               7000 - cfg.minRSquared)
            rSquaredFlags ==
                IF lc.rSquared < cfg.minRSquared /\ lc.exponent < 0
                THEN <<Flag("info", "WEAK_FIT")>> ELSE <<>>
            rawScore == MathRound(exponentScore * 6 + rSquaredScore * 4, 10)
        IN  Scored(Criterion("Learning Curve", weight, rawScore,
                             round2(rawScore * weight, 100)),
                   exponentFlags \o rSquaredFlags)

scoreEfficiency(a, cfg) ==
    LET weight        == 20
        stats         == a.overallStats
        firstTryScore == MathRound(stats.firstTrySuccessRate * 100, 100)
        avgAttempts   == stats.avgAttempts
        attemptScore  == IF avgAttempts <= 100 THEN 100
                         ELSE IF avgAttempts >= 300 THEN 0
                         ELSE MathRound((300 - avgAttempts) * 100, 200)
        rawScore      == MathRound(firstTryScore * 5 + attemptScore * 5, 10)
    IN  Scored(Criterion("Efficiency", weight, rawScore, round2(rawScore * weight, 100)),
               IF avgAttempts > 250 THEN <<Flag("info", "HIGH_RETRY_RATE")>> ELSE <<>>)

\* variant: the improvement trend weighs 0.20
scoreImprovementWeight20(a, cfg) ==
    LET weight   == 20
        ratio    == a.overallStats.improvementRatio
        rawScore == IF ratio <= 5000 THEN 100
                    ELSE IF ratio >= 15000 THEN 0
                    ELSE IF ratio <= 10000 THEN MathRound(1000000 - (ratio - 5000) * 100, 10000)
                    ELSE MathRound(500000 - (ratio - 10000) * 100, 10000)
        clamped  == Min(100, Max(0, rawScore))
    IN  Scored(Criterion("Improvement Trend", weight, clamped,
                         round2(clamped * weight, 100)),
               <<>>)

scoreImprovement(a, cfg) ==
    LET weight   == 15
        ratio    == a.overallStats.improvementRatio
        rawScore == IF ratio <= 5000 THEN 100
                    ELSE IF ratio >= 15000 THEN 0
                    ELSE IF ratio <= 10000 THEN MathRound(1000000 - (ratio - 5000) * 100, 10000)
                    ELSE MathRound(500000 - (ratio - 10000) * 100, 10000)
        clamped  == Min(100, Max(0, rawScore))
    IN  Scored(Criterion("Improvement Trend", weight, clamped,
                         round2(clamped * weight, 100)),
               <<>>)

scoreTimePerformance(a, cfg) ==
    LET weight  == 20
        avgTime == a.overallStats.avgTimeSec
        tasksD  == a.taskDifficulties
        suspiciouslyFast ==
            CountSeq(tasksD, LAMBDA t : t.timeSec < cfg.minSecondsPerTask * 100)
        verySlowTasks ==
            CountSeq(tasksD, LAMBDA t : t.timeSec > cfg.maxSecondsPerTask * 100)
        afterFast == IF suspiciouslyFast > 0
                     THEN 100 - Min(50, suspiciouslyFast * 10) ELSE 100
        afterSlow == IF verySlowTasks > 0
                     THEN afterFast - Min(20, verySlowTasks * 5) ELSE afterFast
        rawScore  == IF avgTime < 500 THEN Min(afterSlow, 20) ELSE afterSlow
        clamped   == Min(100, Max(0, rawScore))
    IN  Scored(Criterion("Time Performance", weight, clamped,
                         round2(clamped * weight, 100)),
               (IF suspiciouslyFast > 3
                THEN <<Flag("critical", "SUSPICIOUSLY_FAST")>> ELSE <<>>)
               \o (IF verySlowTasks > 0
                   THEN <<Flag("info", "VERY_SLOW_TASKS")>> ELSE <<>>)
               \o (IF avgTime < 500
                   THEN <<Flag("critical", "AVG_TIME_TOO_LOW")>> ELSE <<>>))

\* variant: the C- cutoff is 71
toLetterGradeShifted(score) ==
    IF score >= 93 THEN "A"
    ELSE IF score >= 90 THEN "A-"
    ELSE IF score >= 87 THEN "B+"
    ELSE IF score >= 83 THEN "B"
    ELSE IF score >= 80 THEN "B-"
    ELSE IF score >= 77 THEN "C+"
    ELSE IF score >= 73 THEN "C"
    ELSE IF score >= 71 THEN "C-"
    ELSE IF score >= 67 THEN "D+"
    ELSE IF score >= 63 THEN "D"
    ELSE IF score >= 60 THEN "D-"
    ELSE "F"

toLetterGrade(score) ==
    IF score >= 93 THEN "A"
    ELSE IF score >= 90 THEN "A-"
    ELSE IF score >= 87 THEN "B+"
    ELSE IF score >= 83 THEN "B"
    ELSE IF score >= 80 THEN "B-"
    ELSE IF score >= 77 THEN "C+"
    ELSE IF score >= 73 THEN "C"
    ELSE IF score >= 70 THEN "C-"
    ELSE IF score >= 67 THEN "D+"
    ELSE IF score >= 63 THEN "D"
    ELSE IF score >= 60 THEN "D-"
    ELSE "F"

\* variant: the sum is truncated instead of rounded
sumWeightedTruncated(criteria) ==
    SumSeq([i \in 1..Len(criteria) |-> criteria[i].weightedScore]) \div 100

\* Math.round(criteria.reduce((sum, c) => sum + c.weightedScore, 0))
sumWeightedRounded(criteria) ==
    MathRound(SumSeq([i \in 1..Len(criteria) |-> criteria[i].weightedScore]), 100)

gradeSession(a, cfgOverride) ==
    LET cfg             == MergeConfig(cfgOverride)
        completion      == scoreCompletion(a, cfg)
        learningCurve   == scoreLearningCurve(a, cfg)
        efficiency      == scoreEfficiency(a, cfg)
        improvement     == scoreImprovement(a, cfg)
        timePerformance == scoreTimePerformance(a, cfg)
        criteria == <<completion.criterion, learningCurve.criterion,
                      efficiency.criterion, improvement.criterion,
                      timePerformance.criterion>>
        totalScore == sumWeightedRounded(criteria)
    IN  [totalScore  |-> Min(100, Max(0, totalScore)),
         letterGrade |-> toLetterGrade(totalScore),
         criteria    |-> criteria,
         flags       |-> completion.flags \o learningCurve.flags \o efficiency.flags
                           \o improvement.flags \o timePerformance.flags]

-----------------------------------------------------------------------------
(* The analysis pipeline on an arbitrary attempt log                       *)

\* querySequence of the k-th task used in the logs: 1, 2, 4, 8, 16
SequenceOfTask(k) == 2^(k - 1)

\* timeSec of a correct attempt: below minSecondsPerTask, ordinary, above
\* maxSecondsPerTask
Times == {2000, 64000, 1024000}

\* timeSec of an incorrect attempt (the pipeline never reads it)
WrongTime == 64000

Attempt(k, isCorrect, timeSec) ==
    [studentId     |-> "s1",
     round         |-> tasks[SequenceOfTask(k)].round,
     queryNum      |-> tasks[SequenceOfTask(k)].queryNum,
     taskId        |-> tasks[SequenceOfTask(k)].id,
     querySequence |-> SequenceOfTask(k),
     attemptNum    |-> 1,
     timeSec       |-> timeSec,
     isCorrect     |-> isCorrect]

LogEntries ==
    {Attempt(k, TRUE, t) : k \in 1..NumTasks, t \in Times}
        \cup {Attempt(k, FALSE, WrongTime) : k \in 1..NumTasks}

Logs == UNION {[1..n -> LogEntries] : n \in 0..MaxLen}

\* configuration overrides passed to gradeSession
Configs ==
    {<<>>,
     [totalTasks |-> 2],
     [minSecondsPerTask |-> 200],
     [targetExponent |-> -50000],
     [minRSquared |-> 9000],
     \* invalid: a negative task count, a minimum time above the maximum
     [totalTasks |-> -1],
     [minSecondsPerTask |-> 700]}

GetSuccessfulAttempts ==
    /\ phase = "input"
    /\ successful' = getSuccessfulAttempts([attempts |-> log])
    /\ log' = attemptsAfterAnalysis(log)
    /\ phase' = "extracted"
    /\ UNCHANGED <<curve, analysis, config, grading>>
    /\ UNCHANGED sessionVars
    /\ UNCHANGED compareVars
    /\ UNCHANGED complexityVars
    /\ UNCHANGED <<olsVars, calls, databaseVars>>

FitLearningCurve ==
    /\ phase = "extracted"
    /\ curve' = fitLearningCurve(successful)
    /\ phase' = "fitted"
    /\ UNCHANGED <<log, successful, analysis, config, grading>>
    /\ UNCHANGED sessionVars
    /\ UNCHANGED compareVars
    /\ UNCHANGED complexityVars
    /\ UNCHANGED <<olsVars, calls, databaseVars>>

AnalyzeSession ==
    /\ phase = "fitted"
    /\ analysis' = analyzeSession([attempts |-> log])
    /\ log' = attemptsAfterAnalysis(log)
    /\ phase' = "analyzed"
    /\ UNCHANGED <<successful, curve, config, grading>>
    /\ UNCHANGED sessionVars
    /\ UNCHANGED compareVars
    /\ UNCHANGED complexityVars
    /\ UNCHANGED <<olsVars, calls, databaseVars>>

GradeSession(cfgOverride) ==
    /\ phase = "analyzed"
    /\ config' = cfgOverride
    /\ grading' = gradeSession(analysis, cfgOverride)
    /\ phase' = "graded"
    /\ UNCHANGED <<log, successful, curve, analysis>>
    /\ UNCHANGED sessionVars
    /\ UNCHANGED compareVars
    /\ UNCHANGED complexityVars
    /\ UNCHANGED <<olsVars, calls, databaseVars>>

InitAnalysis ==
    /\ session = createEmptySession
    /\ attemptCount = 0
    /\ storage = Null
    /\ feedback = NoFeedback
    /\ log \in Logs
    /\ phase = "input"
    /\ successful = Null
    /\ curve = Null
    /\ analysis = Null
    /\ config = Null
    /\ grading = Null
    /\ studentResult = Null
    /\ expectedResult = Null
    /\ preserveOrder = FALSE
    /\ comparison = Null
    /\ sql = <<>>
    /\ complexity = Null
    /\ inputXs = <<>>
    /\ inputYs = <<>>
    /\ regression = Null
    /\ calls = {}
    /\ db = NoDatabase
    /\ initPromise = NoPromise
    /\ promises = <<>>
    /\ databases = <<>>
    /\ callers = <<>>

NextAnalysis ==
    \/ GetSuccessfulAttempts
    \/ FitLearningCurve
    \/ AnalyzeSession
    \/ \E c \in Configs : GradeSession(c)

SpecAnalysis == InitAnalysis /\ [][NextAnalysis]_vars

-----------------------------------------------------------------------------
(* Time statistics and the Time Performance scorer on successful attempts  *)
(* with millisecond times                                                  *)

\* number of successful attempts (one per task, in task order)
MaxTimed == 2

\* timeSec in milliseconds: 2.000 and 2.996 (below the default minimum of 3),
\* 4.996 (below 5), 64.000, 600.004 and 700.000 (above the default maximum)
TimedTimes == {2000, 2996, 4996, 64000, 600004, 700000}

TimedAttempts ==
    UNION {{[k \in 1..n |-> Attempt(k, TRUE, ts[k])] : ts \in [1..n -> TimedTimes]}
              : n \in 0..MaxTimed}

TimedConfigs == {<<>>, [minSecondsPerTask |-> 5], [maxSecondsPerTask |-> 60]}

\* the two statistics of analyzeSession that scoreTimePerformance reads
ComputeStatistics ==
    /\ phase = "successful"
    /\ analysis' = [taskDifficulties |-> computeTaskDifficulties(successful, log),
                    overallStats     |-> computeOverallStats(successful, log)]
    /\ phase' = "statistics"
    /\ UNCHANGED <<log, successful, curve, config, grading>>
    /\ UNCHANGED sessionVars
    /\ UNCHANGED compareVars
    /\ UNCHANGED complexityVars
    /\ UNCHANGED <<olsVars, calls, databaseVars>>

ScoreTimePerformance(cfgOverride) ==
    /\ phase = "statistics"
    /\ config' = cfgOverride
    /\ grading' = scoreTimePerformance(analysis, MergeConfig(cfgOverride))
    /\ phase' = "scored"
    /\ UNCHANGED <<log, successful, curve, analysis>>
    /\ UNCHANGED sessionVars
    /\ UNCHANGED compareVars
    /\ UNCHANGED complexityVars
    /\ UNCHANGED <<olsVars, calls, databaseVars>>

InitTiming ==
    /\ session = createEmptySession
    /\ attemptCount = 0
    /\ storage = Null
    /\ feedback = NoFeedback
    /\ log \in TimedAttempts
    /\ successful = getSuccessfulAttempts([attempts |-> log])
    /\ phase = "successful"
    /\ curve = Null
    /\ analysis = Null
    /\ config = Null
    /\ grading = Null
    /\ studentResult = Null
    /\ expectedResult = Null
    /\ preserveOrder = FALSE
    /\ comparison = Null
    /\ sql = <<>>
    /\ complexity = Null
    /\ inputXs = <<>>
    /\ inputYs = <<>>
    /\ regression = Null
    /\ calls = {}
    /\ db = NoDatabase
    /\ initPromise = NoPromise
    /\ promises = <<>>
    /\ databases = <<>>
    /\ callers = <<>>

NextTiming ==
    \/ ComputeStatistics
    \/ \E c \in TimedConfigs : ScoreTimePerformance(c)

SpecTiming == InitTiming /\ [][NextTiming]_vars

-----------------------------------------------------------------------------
(* Result comparison (resultComparison.ts)                                 *)
(*                                                                         *)
(* A cell of a result is a number [num |-> m] held in millionths, a string *)
(* [str |-> s] or Null.  A QueryResult is [columns, values], with an error *)
(* field when the query failed.  The message of a ComparisonResult is held *)
(* as its fixed text and the values interpolated into it.                  *)

\* number of columns and of rows of the results compared
MaxCols == 2
MaxRows == 2

\* value.toFixed(2) of a non-negative number, in hundredths: the nearest
\* hundredth, the larger one on a tie
toFixed2(m) == MathRound(m, 10000)

\* Number(text).toString() of a toFixed(2) text: trailing zeros are dropped
NumberToString(h) ==
    LET int  == h \div 100
        frac == h % 100
    IN  IF frac = 0 THEN ToString(int)
        ELSE IF frac % 10 = 0 THEN ToString(int) \o "." \o ToString(frac \div 10)
        ELSE IF frac < 10 THEN ToString(int) \o ".0" \o ToString(frac)
        ELSE ToString(int) \o "." \o ToString(frac)

normalizeValue(value) ==
    IF value = Null THEN "NULL"
    ELSE IF "num" \in DOMAIN value THEN NumberToString(toFixed2(value.num))
    ELSE value.str

\* name.toLowerCase().trim() on the column names of the model
normalizeColumnName(name) ==
    CASE name = "ID"   -> "id"
      [] name = " n "  -> "n"
      [] OTHER         -> name

normalizeRow(row) == [i \in 1..Len(row) |-> normalizeValue(row[i])]

\* the normalized cell texts of the model in localeCompare order, and the
\* normalized column names in code-unit order (the default of Array sort)
LocaleOrder   == <<"18", "18.01", "a", "NULL">>
CodeUnitOrder == <<"id", "n">>

RankIn(order, s) == CHOOSE i \in 1..Len(order) : order[i] = s

localeCompare(a, b) == RankIn(LocaleOrder, a) - RankIn(LocaleOrder, b)

codeUnitCompare(a, b) == RankIn(CodeUnitOrder, a) - RankIn(CodeUnitOrder, b)

\* the comparator of sortRows: the first column that compares unequal decides
compareRows(a, b) ==
    LET differing == {i \in 1..Len(a) : localeCompare(a[i], b[i]) # 0}
    IN  IF differing = {} THEN 0
        ELSE LET i == CHOOSE k \in differing : \A l \in differing : k <= l
             IN  localeCompare(a[i], b[i])

\* Array.prototype.sort with a comparator (stable)
SortWith(s, Cmp(_, _)) ==
    LET n == Len(s)
        pos(i) == 1 + Cardinality({j \in 1..n :
                          \/ Cmp(s[j], s[i]) < 0
                          \/ (Cmp(s[j], s[i]) = 0 /\ j < i)})
    IN  [k \in 1..n |-> s[CHOOSE i \in 1..n : pos(i) = k]]

sortRows(rows) ==
    SortWith([r \in 1..Len(rows) |-> normalizeRow(rows[r])], compareRows)

\* studentResult.error is tested for truthiness
HasError(result) == "error" \in DOMAIN result /\ result.error # ""

\* variant: the row count is compared before the column count
compareResultsRowCountFirst(student, expected, ordered) ==
    LET Result(isMatch, message) ==
            [isMatch |-> isMatch, studentResult |-> student,
             expectedResult |-> expected, message |-> message]
        studentCols ==
            SortWith([i \in 1..Len(student.columns) |->
                         normalizeColumnName(student.columns[i])],
                     codeUnitCompare)
        expectedCols ==
            SortWith([i \in 1..Len(expected.columns) |->
                         normalizeColumnName(expected.columns[i])],
                     codeUnitCompare)
        studentColMap(name) ==
            LET idx == {i \in 1..Len(student.columns) :
                           normalizeColumnName(student.columns[i]) = name}
            IN  IF idx = {} THEN 0
                ELSE CHOOSE i \in idx : \A j \in idx : j <= i
        colMapping ==
            [j \in 1..Len(expected.columns) |->
                studentColMap(normalizeColumnName(expected.columns[j]))]
        reorderedStudentValues ==
            [r \in 1..Len(student.values) |->
                [j \in 1..Len(colMapping) |->
                    IF colMapping[j] > 0
                    THEN student.values[r][colMapping[j]] ELSE Null]]
        normalizedStudent ==
            [r \in 1..Len(reorderedStudentValues) |->
                normalizeRow(reorderedStudentValues[r])]
        normalizedExpected ==
            [r \in 1..Len(expected.values) |->
                normalizeRow(expected.values[r])]
        mismatches == {i \in 1..Len(normalizedExpected) :
                          normalizedStudent[i] # normalizedExpected[i]}
    IN  IF HasError(student)
        THEN Result(FALSE, [text |-> "Query error", error |-> student.error])
        ELSE IF Len(student.values) # Len(expected.values)
        THEN Result(FALSE, [text |-> "Row count mismatch",
                            got |-> Len(student.values),
                            expected |-> Len(expected.values)])
        ELSE IF Len(student.columns) # Len(expected.columns)
        THEN Result(FALSE, [text |-> "Column count mismatch",
                            got |-> Len(student.columns),
                            expected |-> Len(expected.columns)])
        ELSE IF studentCols # expectedCols
        THEN Result(FALSE, [text |-> "Column names don't match",
                            got |-> student.columns])
        ELSE IF ordered
        THEN IF mismatches # {}
             THEN Result(FALSE,
                         [text |-> "Row doesn't match",
                          row  |-> CHOOSE i \in mismatches :
                                       \A j \in mismatches : i <= j])
             ELSE Result(TRUE, [text |-> "Correct!"])
        ELSE IF sortRows(reorderedStudentValues) # sortRows(expected.values)
        THEN Result(FALSE, [text |-> "Results don't match"])
        ELSE Result(TRUE, [text |-> "Correct!"])

compareResults(student, expected, ordered) ==
    LET Result(isMatch, message) ==
            [isMatch |-> isMatch, studentResult |-> student,
             expectedResult |-> expected, message |-> message]
        \* columns.map(normalizeColumnName).sort()
        studentCols ==
            SortWith([i \in 1..Len(student.columns) |->
                         normalizeColumnName(student.columns[i])],
                     codeUnitCompare)
        expectedCols ==
            SortWith([i \in 1..Len(expected.columns) |->
                         normalizeColumnName(expected.columns[i])],
                     codeUnitCompare)
        \* studentColMap.get(name): Map.set overwrites, so the last column of
        \* that name; 0 stands for the -1 of a missing name
        studentColMap(name) ==
            LET idx == {i \in 1..Len(student.columns) :
                           normalizeColumnName(student.columns[i]) = name}
            IN  IF idx = {} THEN 0
                ELSE CHOOSE i \in idx : \A j \in idx : j <= i
        colMapping ==
            [j \in 1..Len(expected.columns) |->
                studentColMap(normalizeColumnName(expected.columns[j]))]
        reorderedStudentValues ==
            [r \in 1..Len(student.values) |->
                [j \in 1..Len(colMapping) |->
                    IF colMapping[j] > 0
                    THEN student.values[r][colMapping[j]] ELSE Null]]
        normalizedStudent ==
            [r \in 1..Len(reorderedStudentValues) |->
                normalizeRow(reorderedStudentValues[r])]
        normalizedExpected ==
            [r \in 1..Len(expected.values) |->
                normalizeRow(expected.values[r])]
        \* rows i with JSON.stringify(student[i]) !== JSON.stringify(expected[i])
        mismatches == {i \in 1..Len(normalizedExpected) :
                          normalizedStudent[i] # normalizedExpected[i]}
    IN  IF HasError(student)
        THEN Result(FALSE, [text |-> "Query error", error |-> student.error])
        ELSE IF Len(student.columns) # Len(expected.columns)
        THEN Result(FALSE, [text |-> "Column count mismatch",
                            got |-> Len(student.columns),
                            expected |-> Len(expected.columns)])
        ELSE IF Len(student.values) # Len(expected.values)
        THEN Result(FALSE, [text |-> "Row count mismatch",
                            got |-> Len(student.values),
                            expected |-> Len(expected.values)])
        ELSE IF studentCols # expectedCols
        THEN Result(FALSE, [text |-> "Column names don't match",
                            got |-> student.columns])
        ELSE IF ordered
        THEN IF mismatches # {}
             THEN Result(FALSE,
                         [text |-> "Row doesn't match",
                          row  |-> CHOOSE i \in mismatches :
                                       \A j \in mismatches : i <= j])
             ELSE Result(TRUE, [text |-> "Correct!"])
        ELSE IF sortRows(reorderedStudentValues) # sortRows(expected.values)
        THEN Result(FALSE, [text |-> "Results don't match"])
        ELSE Result(TRUE, [text |-> "Correct!"])

\* ---- the results compared ----

ColumnNames == {"id", "ID", "n"}

\* cells of a reference result: 18.004999 and 18.005001
Cells == {[num |-> 18004999], [num |-> 18005001]}

\* cells a submitted result can hold instead: also a text and null
SubmittedCells == Cells \cup {[str |-> "a"], Null}

\* the text of a failed query
ErrorText == "no such table"

\* executeQuery without an error: no result set, or columns and rows of that
\* many cells
QueryResults ==
    {[columns |-> <<>>, values |-> <<>>]}
        \cup UNION {{[columns |-> cs, values |-> vs] :
                        cs \in [1..c -> ColumnNames],
                        vs \in UNION {[1..r -> [1..c -> Cells]] : r \in 0..MaxRows}}
                       : c \in 1..MaxCols}

IndexPermutations(n) == {p \in [1..n -> 1..n] : \A i, j \in 1..n : p[i] = p[j] => i = j}

\* column names and each row's values permuted together
PermuteColumns(result, p) ==
    [columns |-> [i \in 1..Len(result.columns) |-> result.columns[p[i]]],
     values  |-> [r \in 1..Len(result.values) |->
                     [i \in 1..Len(result.columns) |-> result.values[r][p[i]]]]]

PermuteRows(result, q) ==
    [columns |-> result.columns,
     values  |-> [r \in 1..Len(result.values) |-> result.values[q[r]]]]

TakeColumns(result, c) ==
    [columns |-> SubSeq(result.columns, 1, c),
     values  |-> [r \in 1..Len(result.values) |-> SubSeq(result.values[r], 1, c)]]

TakeRows(result, n) ==
    [columns |-> result.columns, values |-> SubSeq(result.values, 1, n)]

\* the submitted results compared with a reference result: failed queries,
\* the reference with columns and rows permuted, with one cell or one column
\* name replaced, and with the last column, the last row or both missing
SubmittedFor(expected) ==
    LET c == Len(expected.columns)
        n == Len(expected.values)
    IN  {[columns |-> <<>>, values |-> <<>>, error |-> ErrorText],
         [columns |-> expected.columns, values |-> expected.values,
          error |-> ErrorText]}
        \cup {PermuteRows(PermuteColumns(expected, p), q) :
                 p \in IndexPermutations(c), q \in IndexPermutations(n)}
        \cup {[expected EXCEPT !.values[r][i] = cell] :
                 r \in 1..n, i \in 1..c, cell \in SubmittedCells}
        \cup {[expected EXCEPT !.columns[i] = name] :
                 i \in 1..c, name \in ColumnNames}
        \cup (IF c >= 2 THEN {TakeColumns(expected, c - 1)} ELSE {})
        \cup (IF n >= 1 THEN {TakeRows(expected, n - 1)} ELSE {})
        \cup (IF c >= 2 /\ n >= 1
              THEN {TakeRows(TakeColumns(expected, c - 1), n - 1)} ELSE {})

CompareResults ==
    /\ phase = "results"
    /\ comparison' = compareResults(studentResult, expectedResult, preserveOrder)
    /\ phase' = "compared"
    /\ UNCHANGED <<studentResult, expectedResult, preserveOrder>>
    /\ UNCHANGED complexityVars
    /\ UNCHANGED <<log, successful, curve, analysis, config, grading>>
    /\ UNCHANGED sessionVars
    /\ UNCHANGED <<olsVars, calls, databaseVars>>

InitCompare ==
    /\ session = createEmptySession
    /\ attemptCount = 0
    /\ storage = Null
    /\ feedback = NoFeedback
    /\ log = <<>>
    /\ phase = "results"
    /\ successful = Null
    /\ curve = Null
    /\ analysis = Null
    /\ config = Null
    /\ grading = Null
    /\ expectedResult \in QueryResults
    /\ studentResult \in SubmittedFor(expectedResult)
    /\ preserveOrder \in BOOLEAN
    /\ comparison = Null
    /\ sql = <<>>
    /\ complexity = Null
    /\ inputXs = <<>>
    /\ inputYs = <<>>
    /\ regression = Null
    /\ calls = {}
    /\ db = NoDatabase
    /\ initPromise = NoPromise
    /\ promises = <<>>
    /\ databases = <<>>
    /\ callers = <<>>

NextCompare == CompareResults

SpecCompare == InitCompare /\ [][NextCompare]_vars

-----------------------------------------------------------------------------
(* SQL complexity (analysis.ts, analyzeSqlComplexity)                      *)
(*                                                                         *)
(* The query text is held as its sequence of tokens, words and "(",        *)
(* separated by single spaces.  A regular expression of the code that      *)
(* matches a word between word boundaries matches a token; one that        *)
(* matches two words separated by white space matches two adjacent tokens. *)

\* number of tokens of a query text
MaxTokens == 4

Tokens == {"SELECT", "(", "JOIN", "join", "joined", "GROUP", "BY",
           "HAVING", "CASE", "WHEN", "ORDER"}

\* token.toUpperCase() on the tokens of the model
toUpperCase(token) ==
    CASE token = "join"   -> "JOIN"
      [] token = "joined" -> "JOINED"
      [] OTHER            -> token

\* sql.length of the tokens joined by single spaces
queryLength(text) ==
    SumSeq([i \in 1..Len(text) |-> Len(text[i])])
        + (IF Len(text) > 0 THEN Len(text) - 1 ELSE 0)

\* /\bWORD\b/.test(upper)
HasWord(upper, word) == \E i \in 1..Len(upper) : upper[i] = word

\* /\bFIRST\s+SECOND\b/.test(upper) and /\(\s*SELECT\b/.test(upper)
HasPair(upper, first, second) ==
    \E i \in 1..(Len(upper) - 1) : upper[i] = first /\ upper[i + 1] = second

analyzeSqlComplexity(text) ==
    LET upper       == [i \in 1..Len(text) |-> toUpperCase(text[i])]
        hasJoin     == HasWord(upper, "JOIN")
        hasGroupBy  == HasPair(upper, "GROUP", "BY")
        hasSubquery == HasPair(upper, "(", "SELECT")
        hasOrderBy  == HasPair(upper, "ORDER", "BY")
        hasHaving   == HasWord(upper, "HAVING")
        hasCaseWhen == HasPair(upper, "CASE", "WHEN")
        joinCount   == CountSeq(upper, LAMBDA t : t = "JOIN")
        \* the tier assignments, in the order of the code; the last one wins
        tier1 == 1
        tier2 == IF hasJoin /\ ~hasGroupBy /\ ~hasSubquery THEN 2 ELSE tier1
        tier3 == IF hasGroupBy /\ ~hasSubquery THEN 3 ELSE tier2
        tier4 == IF hasJoin /\ hasGroupBy THEN 3 ELSE tier3
        tier5 == IF joinCount >= 2 /\ hasGroupBy THEN 4 ELSE tier4
        tier6 == IF hasSubquery \/ hasHaving \/ hasCaseWhen THEN 4 ELSE tier5
        tier  == IF hasSubquery /\ (hasGroupBy \/ joinCount >= 2) THEN 5 ELSE tier6
    IN  [queryLength |-> queryLength(text),
         hasJoin     |-> hasJoin,
         hasGroupBy  |-> hasGroupBy,
         hasSubquery |-> hasSubquery,
         hasOrderBy  |-> hasOrderBy,
         hasHaving   |-> hasHaving,
         hasCaseWhen |-> hasCaseWhen,
         joinCount   |-> joinCount,
         tier        |-> tier]

AnalyzeSqlComplexity ==
    /\ phase = "sql"
    /\ complexity' = analyzeSqlComplexity(sql)
    /\ phase' = "classified"
    /\ UNCHANGED sql
    /\ UNCHANGED <<log, successful, curve, analysis, config, grading>>
    /\ UNCHANGED sessionVars
    /\ UNCHANGED <<olsVars, calls, databaseVars>>
    /\ UNCHANGED compareVars

InitComplexity ==
    /\ session = createEmptySession
    /\ attemptCount = 0
    /\ storage = Null
    /\ feedback = NoFeedback
    /\ log = <<>>
    /\ phase = "sql"
    /\ successful = Null
    /\ curve = Null
    /\ analysis = Null
    /\ config = Null
    /\ grading = Null
    /\ studentResult = Null
    /\ expectedResult = Null
    /\ preserveOrder = FALSE
    /\ comparison = Null
    /\ sql \in UNION {[1..n -> Tokens] : n \in 0..MaxTokens}
    /\ complexity = Null
    /\ inputXs = <<>>
    /\ inputYs = <<>>
    /\ regression = Null
    /\ calls = {}
    /\ db = NoDatabase
    /\ initPromise = NoPromise
    /\ promises = <<>>
    /\ databases = <<>>
    /\ callers = <<>>

NextComplexity == AnalyzeSqlComplexity

SpecComplexity == InitComplexity /\ [][NextComplexity]_vars

-----------------------------------------------------------------------------
(* Specification of the database singleton under concurrent callers        *)

InitDatabaseModule ==
    /\ db = NoDatabase
    /\ initPromise = NoPromise
    /\ promises = <<>>
    /\ databases = <<>>
    /\ callers = [c \in Callers |-> NotCalled]
    /\ session = createEmptySession
    /\ attemptCount = 0
    /\ storage = Null
    /\ feedback = NoFeedback
    /\ log = <<>>
    /\ phase = "input"
    /\ successful = Null
    /\ curve = Null
    /\ analysis = Null
    /\ config = Null
    /\ grading = Null
    /\ studentResult = Null
    /\ expectedResult = Null
    /\ preserveOrder = FALSE
    /\ comparison = Null
    /\ sql = <<>>
    /\ complexity = Null
    /\ inputXs = <<>>
    /\ inputYs = <<>>
    /\ regression = Null
    /\ calls = {}

NextDatabase ==
    \/ \E c \in Callers : CallInitDatabase(c)
    \/ \E p \in 1..MaxInits, o \in InitOutcomes : InitializationEnds(p, o)

SpecDatabase == InitDatabaseModule /\ [][NextDatabase]_vars

-----------------------------------------------------------------------------
(* Specification of ols: the regression of bounded point sets              *)

\* the most points handed to ols
MaxPoints == 3

\* coordinates of the points (ols takes any numbers; the tests use small ones)
PointValues == {0, 1, 3}

PointSeqs(n) == [1..n -> PointValues]

Ols ==
    /\ phase = "points"
    /\ regression' = ols(inputXs, inputYs)
    /\ phase' = "regressed"
    /\ UNCHANGED <<inputXs, inputYs>>
    /\ UNCHANGED <<log, successful, curve, analysis, config, grading>>
    /\ UNCHANGED sessionVars
    /\ UNCHANGED compareVars
    /\ UNCHANGED complexityVars
    /\ UNCHANGED <<calls, databaseVars>>

InitOls ==
    /\ \E n \in 1..MaxPoints :
           /\ inputXs \in PointSeqs(n)
           /\ inputYs \in PointSeqs(n)
    /\ regression = Null
    /\ phase = "points"
    /\ session = createEmptySession
    /\ attemptCount = 0
    /\ storage = Null
    /\ feedback = NoFeedback
    /\ log = <<>>
    /\ successful = Null
    /\ curve = Null
    /\ analysis = Null
    /\ config = Null
    /\ grading = Null
    /\ studentResult = Null
    /\ expectedResult = Null
    /\ preserveOrder = FALSE
    /\ comparison = Null
    /\ sql = <<>>
    /\ complexity = Null
    /\ calls = {}
    /\ db = NoDatabase
    /\ initPromise = NoPromise
    /\ promises = <<>>
    /\ databases = <<>>
    /\ callers = <<>>

NextOls == Ols

SpecOls == InitOls /\ [][NextOls]_vars

-----------------------------------------------------------------------------
(* Specification of the study session                                      *)

Init ==
    /\ session = createEmptySession
    /\ attemptCount = 0
    /\ storage = Null
    /\ feedback = NoFeedback
    /\ log = <<>>
    /\ phase = "input"
    /\ successful = Null
    /\ curve = Null
    /\ analysis = Null
    /\ config = Null
    /\ grading = Null
    /\ studentResult = Null
    /\ expectedResult = Null
    /\ preserveOrder = FALSE
    /\ comparison = Null
    /\ sql = <<>>
    /\ complexity = Null
    /\ inputXs = <<>>
    /\ inputYs = <<>>
    /\ regression = Null
    /\ calls = {}
    /\ db = NoDatabase
    /\ initPromise = NoPromise
    /\ promises = <<>>
    /\ databases = <<>>
    /\ callers = <<>>

Next ==
    \/ \E info \in StudentInfos : StartStudy(info)
    \/ \E o \in Outcomes, t \in Elapsed : HandleSubmit(o, t)
    \/ HandleRun
    \/ Reload
    \/ ResetStudy

Spec == Init /\ [][Next]_vars

NextOverlap ==
    \/ \E info \in StudentInfos : StartStudy(info)
    \/ \E m \in BOOLEAN, t \in Elapsed : SubmitAnswerBegin(m, t)
    \/ \E c \in calls : SubmitAnswerEnd(c)
    \/ ResetStudy

SpecOverlap == Init /\ [][NextOverlap]_vars

-----------------------------------------------------------------------------
(* Specification of one pass through the study: the landing page starts a  *)
(* new session once, and the participant keeps submitting; a correct       *)
(* submission is never withheld for ever.                                  *)

\* handleSubmit of the landing page, which redirects away from its form as
\* soon as the session has a studentInfo
LandingStart(info) ==
    /\ session.studentInfo = Null
    /\ StartStudy(info)

SubmitCorrect == \E t \in Elapsed : HandleSubmit("correct", t)

NextProgress ==
    \/ \E info \in StudentInfos : LandingStart(info)
    \/ \E o \in Outcomes, t \in Elapsed :
           /\ o = "wrong" => WrongCount < MaxWrongInPass
           /\ HandleSubmit(o, t)

SpecProgress == Init /\ [][NextProgress]_vars /\ WF_vars(SubmitCorrect)

-----------------------------------------------------------------------------
(* Properties                                                              *)

\* task ids that can occur in a log of the analysis pipeline
LogTaskIds == {tasks[SequenceOfTask(k)].id : k \in 1..NumTasks}

HasCorrect(t) == \E j \in 1..Len(log) : log[j].taskId = t /\ log[j].isCorrect

LastCorrectIndex(t) ==
    CHOOSE j \in 1..Len(log) :
        /\ log[j].taskId = t /\ log[j].isCorrect
        /\ \A k \in (j + 1)..Len(log) : ~(log[k].taskId = t /\ log[k].isCorrect)

TasksWithCorrect == Cardinality({t \in LogTaskIds : HasCorrect(t)})

FlagCount(code) == CountSeq(grading.flags, LAMBDA f : f.code = code)

\* C1: getSuccessfulAttempts returns exactly one attempt for each taskId with
\* a correct attempt and none for any other taskId; the attempt returned is
\* the last correct one of the task in log order; no taskId occurs twice and
\* the result is ordered by querySequence, non-decreasing.
C1_SuccessfulAttemptSet ==
    phase # "input" =>
        /\ \A t \in LogTaskIds :
              Cardinality({i \in 1..Len(successful) : successful[i].taskId = t})
                  = IF HasCorrect(t) THEN 1 ELSE 0
        /\ \A i \in 1..Len(successful) :
              /\ successful[i].taskId \in LogTaskIds
              /\ HasCorrect(successful[i].taskId)
              /\ successful[i] = log[LastCorrectIndex(successful[i].taskId)]
        /\ \A i, j \in 1..Len(successful) :
              i < j => /\ successful[i].taskId # successful[j].taskId
                       /\ successful[i].querySequence <= successful[j].querySequence

\* a task answered correctly twice with different times, a second successful
\* task, and a log that is not in sequence order
C1_Witness ==
    /\ phase = "extracted"
    /\ Len(successful) >= 2
    /\ \E i, j \in 1..Len(log) :
          /\ i < j /\ log[i].isCorrect /\ log[j].isCorrect
          /\ log[i].taskId = log[j].taskId /\ log[i].timeSec # log[j].timeSec
    /\ \E i, j \in 1..Len(log) :
          i < j /\ log[i].isCorrect /\ log[j].isCorrect
                /\ log[i].querySequence > log[j].querySequence

\* C2: every Submit Answer action on a started, not yet complete session
\* appends exactly one attempt to the session's attempt log, whether the query
\* is correct, wrong, or fails to execute.
C2_EverySubmitAppendsOne ==
    [][ ( /\ session.studentInfo # Null
          /\ ~session.isComplete
          /\ \E o \in Outcomes, t \in Elapsed : HandleSubmit(o, t) )
        => /\ Len(session'.attempts) = Len(session.attempts) + 1
           /\ SubSeq(session'.attempts, 1, Len(session.attempts)) = session.attempts
      ]_vars

\* C3: among the logged attempts that share a taskId, attemptNum is strictly
\* increasing in log order.
C3_AttemptNumStrictlyIncreasing ==
    \A i, j \in 1..Len(session.attempts) :
        (i < j /\ session.attempts[i].taskId = session.attempts[j].taskId)
            => session.attempts[i].attemptNum < session.attempts[j].attemptNum

\* C4: fitLearningCurve returns residuals and predictedTimes whose lengths
\* both equal the returned sample size n, for input lists of any length.
C4_LengthsEqualSampleSize ==
    phase \in {"fitted", "analyzed", "graded"} =>
        /\ Len(curve.residuals) = curve.n
        /\ Len(curve.predictedTimes) = curve.n

\* C5: each of the five criteria returned by gradeSession has rawScore in
\* [0,100], for every analysis and every configuration override.
C5_RawScoresInRange ==
    phase = "graded" =>
        \A i \in 1..Len(grading.criteria) :
            grading.criteria[i].rawScore \in 0..100

\* C6: totalScore is the rounded sum of the five weightedScores clamped to
\* [0,100], hence an integer between 0 and 100.
C6_TotalScoreIsClampedRoundedSum ==
    phase = "graded" =>
        LET sum == SumSeq([i \in 1..Len(grading.criteria) |->
                              grading.criteria[i].weightedScore])
            rounded == MathRound(sum, 100)
        IN  /\ grading.totalScore =
                   (IF rounded > 100 THEN 100 ELSE IF rounded < 0 THEN 0 ELSE rounded)
            /\ grading.totalScore \in 0..100

\* the rounded sum exceeds 100 and is clamped
C6_Witness ==
    /\ phase = "graded"
    /\ MathRound(SumSeq([i \in 1..Len(grading.criteria) |->
                            grading.criteria[i].weightedScore]), 100) > 100
    /\ grading.totalScore = 100

\* C7: gradeSession returns exactly five criteria with weights 0.20, 0.25,
\* 0.20, 0.15 and 0.20, which sum to 1.0, whatever the analysis and the
\* configuration override.
C7_FiveCriteriaFixedWeights ==
    phase = "graded" =>
        /\ Len(grading.criteria) = 5
        /\ [i \in 1..5 |-> grading.criteria[i].weight] = <<20, 25, 20, 15, 20>>
        /\ SumSeq([i \in 1..5 |-> grading.criteria[i].weight]) = 100

\* graded under an override, with a fitted learning curve
C7_Witness ==
    /\ phase = "graded"
    /\ "totalTasks" \in DOMAIN config
    /\ analysis.learningCurve # Null
    /\ Len(grading.criteria) = 5

\* the cutoff table of the grade letters, highest cutoff first
GradeCutoffs ==
    <<<<93, "A">>, <<90, "A-">>, <<87, "B+">>, <<83, "B">>, <<80, "B-">>,
      <<77, "C+">>, <<73, "C">>, <<70, "C-">>, <<67, "D+">>, <<63, "D">>,
      <<60, "D-">>>>

GradeByTable(score) ==
    IF \E k \in 1..Len(GradeCutoffs) : score >= GradeCutoffs[k][1]
    THEN GradeCutoffs[CHOOSE k \in 1..Len(GradeCutoffs) :
                          /\ score >= GradeCutoffs[k][1]
                          /\ \A m \in 1..(k - 1) : score < GradeCutoffs[m][1]][2]
    ELSE "F"

\* C8: the letterGrade returned by gradeSession is the grade the cutoff table
\* assigns to the returned totalScore.
C8_LetterGradeMatchesTotalScore ==
    phase = "graded" => grading.letterGrade = GradeByTable(grading.totalScore)

\* a total exactly on a cutoff
C8_Witness ==
    /\ phase = "graded"
    /\ grading.totalScore = 70
    /\ grading.letterGrade = "C-"

\* C9: INCOMPLETE is emitted exactly once when completedTasks < totalTasks and
\* never otherwise; it is critical when completedTasks is below 50% of
\* totalTasks and a warning otherwise, including at exactly 50%.
C9_IncompleteFlag ==
    phase = "graded" =>
        LET completed == analysis.overallStats.completedTasks
            total     == MergeConfig(config).totalTasks
        IN  IF completed < total
            THEN /\ FlagCount("INCOMPLETE") = 1
                 /\ \A k \in 1..Len(grading.flags) :
                       grading.flags[k].code = "INCOMPLETE" =>
                           grading.flags[k].severity =
                               (IF 2 * completed < total THEN "critical" ELSE "warning")
            ELSE FlagCount("INCOMPLETE") = 0

\* exactly half of the tasks completed: a warning
C9_Witness ==
    /\ phase = "graded"
    /\ analysis.overallStats.completedTasks > 0
    /\ 2 * analysis.overallStats.completedTasks = MergeConfig(config).totalTasks
    /\ \E k \in 1..Len(grading.flags) :
          grading.flags[k] = Flag("warning", "INCOMPLETE")

\* C10: with fewer than 3 tasks having a successful attempt, analyzeSession
\* returns learningCurve = null and gradeSession gives Learning Curve rawScore
\* 0 and emits INSUFFICIENT_DATA_FOR_LC exactly once; with 3 or more the flag
\* is never emitted.
C10_InsufficientDataForCurve ==
    /\ phase \in {"analyzed", "graded"} =>
          (TasksWithCorrect < 3 => analysis.learningCurve = Null)
    /\ phase = "graded" =>
          IF TasksWithCorrect < 3
          THEN /\ grading.criteria[2].name = "Learning Curve"
               /\ grading.criteria[2].rawScore = 0
               /\ FlagCount("INSUFFICIENT_DATA_FOR_LC") = 1
          ELSE FlagCount("INSUFFICIENT_DATA_FOR_LC") = 0

\* two tasks answered correctly: no curve, the flag once
C10_Witness ==
    /\ phase = "graded"
    /\ TasksWithCorrect = 2
    /\ analysis.learningCurve = Null
    /\ FlagCount("INSUFFICIENT_DATA_FOR_LC") = 1

\* C11: the Time Performance rawScore is 100 - min(50, 10 * fast)
\* - min(20, 5 * slow), fast and slow counting the completed tasks with time
\* below minSecondsPerTask and above maxSecondsPerTask; exactly when the
\* average time over the successful attempts is below 5 seconds the score is
\* capped at 20 and the critical flag AVG_TIME_TOO_LOW is raised.  (With no
\* successful attempt the average is taken as 0, as the code does.)
C11_TimePerformanceScore ==
    phase = "scored" =>
        LET cfg   == MergeConfig(config)
            n     == Len(successful)
            fast  == CountSeq(successful,
                              LAMBDA a : a.timeSec < cfg.minSecondsPerTask * 1000)
            slow  == CountSeq(successful,
                              LAMBDA a : a.timeSec > cfg.maxSecondsPerTask * 1000)
            total == SumSeq([i \in 1..n |-> successful[i].timeSec])
            avgBelow5 == n = 0 \/ total < 5000 * n
            base  == 100 - Min(50, 10 * fast) - Min(20, 5 * slow)
            tooLow == CountSeq(grading.flags,
                               LAMBDA f : f.code = "AVG_TIME_TOO_LOW")
        IN  /\ grading.criterion.rawScore
                 = IF avgBelow5 THEN Min(base, 20) ELSE base
            /\ tooLow = IF avgBelow5 THEN 1 ELSE 0
            /\ \A i \in 1..Len(grading.flags) :
                   grading.flags[i].code = "AVG_TIME_TOO_LOW"
                       => grading.flags[i].severity = "critical"

\* C12: overallStats.totalAttempts is the number of log entries,
\* completedTasks the number of distinct taskIds with a correct attempt, and
\* each TaskDifficulty has attempts equal to the number of log entries with
\* its taskId and firstTrySuccess equal to the correctness of the first log
\* entry with its taskId.
C12_AttemptStatistics ==
    phase \in {"analyzed", "graded"} =>
        /\ analysis.overallStats.totalAttempts = Len(log)
        /\ analysis.overallStats.completedTasks = TasksWithCorrect
        /\ \A d \in 1..Len(analysis.taskDifficulties) :
               LET t   == analysis.taskDifficulties[d].taskId
                   idx == {i \in 1..Len(log) : log[i].taskId = t}
               IN  /\ analysis.taskDifficulties[d].attempts = Cardinality(idx)
                   /\ \E i \in idx :
                          /\ \A j \in idx : i <= j
                          /\ analysis.taskDifficulties[d].firstTrySuccess
                                 = log[i].isCorrect

\* a task with three attempts, two wrong and then one correct
C12_Witness ==
    /\ phase = "analyzed"
    /\ Len(log) = 3
    /\ \A i \in 1..3 : log[i].taskId = log[1].taskId
    /\ ~log[1].isCorrect /\ ~log[2].isCorrect /\ log[3].isCorrect
    /\ Len(analysis.taskDifficulties) = 1
    /\ analysis.taskDifficulties[1].attempts = 3
    /\ ~analysis.taskDifficulties[1].firstTrySuccess
    /\ analysis.overallStats.totalAttempts = 3
    /\ analysis.overallStats.completedTasks = 1

NameCount(result, name) ==
    Cardinality({i \in 1..Len(result.columns) :
                    normalizeColumnName(result.columns[i]) = name})

SameColumnNames(a, b) ==
    \A name \in {normalizeColumnName(c) : c \in ColumnNames} :
        NameCount(a, name) = NameCount(b, name)

\* number of rows of a result whose normalized form is row
RowCount(result, row) ==
    Cardinality({r \in 1..Len(result.values) : normalizeRow(result.values[r]) = row})

SameRowMultiset(a, b) ==
    /\ Len(a.values) = Len(b.values)
    /\ \A r \in 1..Len(a.values) :
           RowCount(a, normalizeRow(a.values[r]))
               = RowCount(b, normalizeRow(a.values[r]))

\* C14: compareResults reports the first failing check in the order
\* submitted-query error (with the error text, whatever the result holds),
\* column count, row count, column names, row contents; isMatch is true only
\* when every check passes.
C14_FirstFailingCheck ==
    phase = "compared" =>
        LET s == studentResult
            e == expectedResult
            text == comparison.message.text
        IN  /\ comparison.isMatch <=> text = "Correct!"
            /\ IF "error" \in DOMAIN s
               THEN comparison.message = [text |-> "Query error", error |-> s.error]
               ELSE IF Len(s.columns) # Len(e.columns)
               THEN text = "Column count mismatch"
               ELSE IF Len(s.values) # Len(e.values)
               THEN text = "Row count mismatch"
               ELSE IF ~SameColumnNames(s, e)
               THEN text = "Column names don't match"
               ELSE text \in {"Row doesn't match", "Results don't match", "Correct!"}

\* a submitted result with fewer columns and fewer rows than the reference
C14_Witness ==
    /\ phase = "compared"
    /\ "error" \notin DOMAIN studentResult
    /\ Len(studentResult.columns) # Len(expectedResult.columns)
    /\ Len(studentResult.values) # Len(expectedResult.values)
    /\ comparison.message.text = "Column count mismatch"
    /\ ~comparison.isMatch

\* C15: a submitted result obtained from an error-free reference result by
\* permuting its columns (names and each row's values together) matches, for
\* both preserveOrder settings.
C15_ColumnPermutationMatches ==
    (/\ phase = "compared"
     /\ "error" \notin DOMAIN studentResult
     /\ \E p \in IndexPermutations(Len(expectedResult.columns)) :
            studentResult = PermuteColumns(expectedResult, p))
        => comparison.isMatch

\* C16: two error-free results with the same columns whose normalized rows
\* form the same multiset match when preserveOrder is false; when it is true
\* they match only if the rows are equal position by position, and otherwise
\* the message names the first differing row by its 1-based index.
C16_RowOrderSensitivity ==
    (/\ phase = "compared"
     /\ "error" \notin DOMAIN studentResult
     /\ studentResult.columns = expectedResult.columns
     /\ SameRowMultiset(studentResult, expectedResult))
        => LET differing ==
                   {r \in 1..Len(expectedResult.values) :
                       normalizeRow(studentResult.values[r])
                           # normalizeRow(expectedResult.values[r])}
           IN  IF ~preserveOrder THEN comparison.isMatch
               ELSE IF differing = {} THEN comparison.isMatch
               ELSE /\ ~comparison.isMatch
                    /\ comparison.message
                           = [text |-> "Row doesn't match",
                              row  |-> CHOOSE r \in differing :
                                           \A q \in differing : r <= q]

\* C17: two results that differ only in one cell, 18.004999 submitted and
\* 18.005001 in the reference, match.
C17_NumericTolerance ==
    (/\ phase = "compared"
     /\ "error" \notin DOMAIN studentResult
     /\ \E r \in 1..Len(expectedResult.values), i \in 1..Len(expectedResult.columns) :
            /\ expectedResult.values[r][i] = [num |-> 18005001]
            /\ studentResult = [expectedResult EXCEPT !.values[r][i] = [num |-> 18004999]])
        => comparison.isMatch

\* ---- configuration and degenerate sessions ----

InvalidConfig(cfg) ==
    \/ cfg.totalTasks < 0
    \/ cfg.minSecondsPerTask >= cfg.maxSecondsPerTask

CriterionNamed(name) ==
    grading.criteria[CHOOSE i \in 1..Len(grading.criteria) :
                         grading.criteria[i].name = name]

\* C18: gradeSession rejects an invalid configuration (negative totalTasks,
\* or minSecondsPerTask >= maxSecondsPerTask) with an error instead of
\* returning a GradingResult.
C18_InvalidConfigRejected ==
    (phase = "graded" /\ InvalidConfig(MergeConfig(config)))
        => "totalScore" \notin DOMAIN grading

\* C19: for a session in which no task has a correct attempt, analyzeSession
\* and gradeSession return results with Completion rawScore 0, Learning Curve
\* rawScore 0, exactly one INSUFFICIENT_DATA_FOR_LC flag and letter grade F.
C19_NoCorrectAttempt ==
    (phase = "graded" /\ TasksWithCorrect = 0)
        => /\ analysis.learningCurve = Null
           /\ CriterionNamed("Completion").rawScore = 0
           /\ CriterionNamed("Learning Curve").rawScore = 0
           /\ FlagCount("INSUFFICIENT_DATA_FOR_LC") = 1
           /\ grading.letterGrade = "F"

\* a graded session of wrong attempts only
C19_Witness ==
    /\ phase = "graded"
    /\ Len(log) >= 2
    /\ \A i \in 1..Len(log) : ~log[i].isCorrect
    /\ grading.letterGrade = "F"
    /\ FlagCount("INSUFFICIENT_DATA_FOR_LC") = 1

\* C20: whenever analyzeSqlComplexity returns tier 2, the text has exactly one
\* join keyword, no GROUP BY and no nested query.
C20_TierTwoIsSingleJoin ==
    (phase = "classified" /\ complexity.tier = 2)
        => /\ complexity.joinCount = 1
           /\ ~complexity.hasGroupBy
           /\ ~complexity.hasSubquery

\* ---- degenerate regressions ----

\* C21: for a single observation fitLearningCurve returns exponent 0,
\* R-squared 0 and an intercept equal to the observation's transformed value,
\* the logarithm of its time (held to base 2, in ten-thousandths).
C21_SingleObservationIntercept ==
    (phase = "fitted" /\ Len(successful) = 1)
        => /\ curve.exponent = 0
           /\ curve.rSquared = 0
           /\ curve.intercept = round4(Log2(Seconds(successful[1].timeSec)), 1)

AllEqual(s) == \A i, j \in 1..Len(s) : s[i] = s[j]

\* C22: for at least two points, a constant y over varying x gives slope 0 and
\* R-squared 0; a constant x gives slope 0, the mean of y as intercept and
\* R-squared 0.
C22_DegenerateRegressions ==
    (phase = "regressed" /\ Len(inputXs) >= 2)
        => /\ (AllEqual(inputYs) /\ ~AllEqual(inputXs))
                  => /\ regression.slope.num = 0
                     /\ regression.rSquared.num = 0
           /\ AllEqual(inputXs)
                  => /\ regression.slope.num = 0
                     /\ regression.intercept.num * Len(inputYs)
                            = SumSeq(inputYs) * regression.intercept.den
                     /\ regression.rSquared.num = 0

C22_Witness ==
    /\ phase = "regressed"
    /\ Len(inputXs) = 3
    /\ AllEqual(inputXs)
    /\ ~AllEqual(inputYs)
    /\ regression.intercept.num # 0

\* ---- the stored session ----

\* the fields of a session that a reload has to bring back
Restored(s) ==
    [studentInfo  |-> s.studentInfo,
     currentRound |-> s.currentRound,
     currentQuery |-> s.currentQuery,
     attempts     |-> s.attempts,
     isComplete   |-> s.isComplete]

\* C23: after any sequence of startStudy and submit actions a reload restores
\* from storage a session with the studentInfo, currentRound, currentQuery,
\* attempts and isComplete of the in-memory session: what getSession reads
\* from storage agrees with the in-memory session on these fields.
C23_ReloadRestoresSession ==
    Restored(getSession(storage)) = Restored(session)

\* a reload has happened after a wrong submission: the attempt counter is back
\* at 0 although the last attempt of the log is a wrong one
C23_Witness ==
    /\ storage # Null
    /\ Len(session.attempts) >= 2
    /\ ~session.attempts[Len(session.attempts)].isCorrect
    /\ attemptCount = 0
    /\ session.currentQuery = 2

\* ---- progress through the tasks ----

\* the correct attempts of a log, in log order
CorrectAttempts(attempts) == SelectSeq(attempts, LAMBDA a : a.isCorrect)

\* the tasks answered so far are 1.1, 1.2, ... in catalogue order and the task
\* presented is the next one of the catalogue
PresentedInOrder ==
    LET done == CorrectAttempts(session.attempts)
    IN  /\ Len(done) <= Len(tasks)
        /\ \A i \in 1..Len(done) : done[i].taskId = tasks[i].id
        /\ (session.studentInfo # Null /\ Len(done) < Len(tasks))
               => /\ currentTaskOf(session) # Null
                  /\ currentTaskOf(session).id = tasks[Len(done) + 1].id
        /\ session.isComplete => Len(done) = 18

\* isComplete turns true exactly in a step that logs the 18th correct answer
CompletesAtEighteenth ==
    (~session.isComplete /\ session'.isComplete)
        => /\ Len(CorrectAttempts(session.attempts)) = 17
           /\ Len(CorrectAttempts(session'.attempts)) = 18
           /\ session'.attempts[Len(session'.attempts)].isCorrect
           /\ session'.attempts[Len(session'.attempts)].taskId = tasks[18].id

\* C24: from a new session, with correct answers being submitted again and
\* again, the tasks are presented in the order 1.1, 1.2, 1.3, 2.1, ..., 5.4,
\* the session eventually reaches isComplete = true, and isComplete becomes
\* true in the step that answers the 18th task correctly, in no earlier step.
C24_OrderedProgressToCompletion ==
    /\ []PresentedInOrder
    /\ [][CompletesAtEighteenth]_vars
    /\ (session.studentInfo # Null) ~> session.isComplete

C24_Witness ==
    /\ session.isComplete
    /\ Len(CorrectAttempts(session.attempts)) = 18
    /\ Len(session.attempts) = 19

\* ---- the persisted attempt log ----

\* attempts of the stored session
StoredAttempts(store) == getSession(store).attempts

\* a is b with zero or more entries left out
RECURSIVE IsSubsequence(_, _)
IsSubsequence(a, b) ==
    IF a = <<>> THEN TRUE
    ELSE IF b = <<>> THEN FALSE
    ELSE IF Head(a) = Head(b) THEN IsSubsequence(Tail(a), Tail(b))
    ELSE IsSubsequence(a, Tail(b))

\* C25: an attempt written to the persisted log stays in it, unchanged and in
\* the same relative order, in every later state until the study is reset or
\* restarted, also when submitAnswer calls overlap: every step other than a
\* start or a reset keeps the stored attempts as a subsequence of the new
\* stored attempts.
C25_PersistedAttemptsKept ==
    [][\/ \E info \in StudentInfos : StartStudy(info)
       \/ ResetStudy
       \/ IsSubsequence(StoredAttempts(storage), StoredAttempts(storage'))]_vars

\* ---- the position in the study ----

Position(s) == <<s.currentRound, s.currentQuery, s.isComplete>>

\* C26: currentRound, currentQuery and isComplete change only in a step that
\* submits a correct answer, starts or resets the study; a wrong submission
\* and runQuery leave them unchanged, and runQuery leaves the attempt log
\* unchanged as well.
C26_PositionChangesOnlyOnCorrect ==
    [][/\ Position(session') # Position(session)
              => \/ \E info \in StudentInfos : StartStudy(info)
                 \/ ResetStudy
                 \/ \E t \in Elapsed : HandleSubmit("correct", t)
       /\ (\E t \in Elapsed : HandleSubmit("wrong", t))
              => Position(session') = Position(session)
       /\ HandleRun
              => /\ Position(session') = Position(session)
                 /\ session'.attempts = session.attempts
                 /\ StoredAttempts(storage') = StoredAttempts(storage)]_vars

\* a wrong answer has been logged for the task that is still the current one
C26_Witness ==
    /\ Len(session.attempts) >= 2
    /\ ~session.attempts[Len(session.attempts)].isCorrect
    /\ currentTaskOf(session) # Null
    /\ currentTaskOf(session).id = session.attempts[Len(session.attempts)].taskId
    /\ session.currentQuery = 2
    /\ attemptCount = 1

\* ---- the database singleton ----

\* the database a caller has received: directly, or through a fulfilled promise
HasReceived(c) ==
    \/ callers[c].kind = "db"
    \/ callers[c].kind = "promise" /\ promises[callers[c].id].state = "fulfilled"

Received(c) ==
    IF callers[c].kind = "db" THEN callers[c].id
    ELSE promises[callers[c].id].value

InitializationSucceeded == \E p \in 1..Len(promises) : promises[p].state = "fulfilled"

\* C27: in any interleaving of initDatabase calls in which initialization
\* succeeds, one database is constructed, the schema and the seed script each
\* ran on it exactly once, and every caller that received a database received
\* that one.
C27_InitializedExactlyOnce ==
    InitializationSucceeded
        => /\ Len(databases) = 1
           /\ databases[1] = [schemaRuns |-> 1, seedRuns |-> 1]
           /\ db = 1
           /\ \A c \in Callers : HasReceived(c) => Received(c) = db

\* all callers called, before and after the initialization ended, and all hold
\* the database
C27_Witness ==
    /\ InitializationSucceeded
    /\ \A c \in Callers : HasReceived(c)
    /\ \E c \in Callers : callers[c].kind = "promise"
    /\ \E c \in Callers : callers[c].kind = "db"

\* C29: after a failed initialization attempt initDatabase never hands out a
\* database on which schema creation and seeding did not both complete.
C29_NoHalfInitializedDatabase ==
    (\E p \in 1..Len(promises) : promises[p].state = "rejected")
        => \A c \in Callers :
               HasReceived(c)
                   => /\ databases[Received(c)].schemaRuns = 1
                      /\ databases[Received(c)].seedRuns = 1

\* C28: compareResults is reflexive: an error-free result compared with
\* itself matches, for both preserveOrder settings, also when two of its
\* columns share a normalized name and hold different values.
C28_CompareResultsReflexive ==
    (/\ phase = "compared"
     /\ "error" \notin DOMAIN studentResult
     /\ studentResult = expectedResult)
        => comparison.isMatch

\* ids of the tasks with a correct attempt in the session's log
SolvedTasks(s) ==
    {s.attempts[i].taskId : i \in {j \in 1..Len(s.attempts) : s.attempts[j].isCorrect}}

\* C30: while the session is started and not complete, the current position
\* names an existing task whose sequence index is one more than the number of
\* distinct tasks with a correct attempt in the log; isComplete implies that
\* each of the 18 tasks has a correct attempt and that taskStartTime is null,
\* so that no further attempt is logged.
C30_PositionMatchesLog ==
    /\ [](/\ (session.studentInfo # Null /\ ~session.isComplete)
                 => /\ currentTaskOf(session) # Null
                    /\ querySequenceOf(session)
                           = Cardinality(SolvedTasks(session)) + 1
          /\ session.isComplete
                 => /\ SolvedTasks(session) = {tasks[i].id : i \in 1..Len(tasks)}
                    /\ Cardinality(SolvedTasks(session)) = 18
                    /\ session.taskStartTime = NoTime)
    /\ [][(session.isComplete /\ session'.isComplete)
              => session'.attempts = session.attempts]_vars

\* the study is complete and a further submission has been turned away
C30_Witness ==
    /\ session.isComplete
    /\ Cardinality(SolvedTasks(session)) = 18
    /\ feedback = "error"

====
